---- MODULE Spec2Model ----
\* StrichBot: historical statistics store (file-based and relational
\* lib/dataStore.js), API key expiry monitor (lib/keyMonitor.js,
\* api/check-api-key.js), schedule engine (lib/scheduler.js and
\* matchesSchedule of api/scheduler.js) and trend analysis
\* (lib/trendAnalysis.js).
\*
\* Time is counted in ticks; one day is TicksPerDay ticks, so an instant is
\* an integer and a Date object is the instant it holds.  The local calendar
\* date of an instant is its day number in the process time zone (tz ticks
\* east of UTC).  A "YYYY-MM-DD" string is a record [day, ext] whose ext is
\* "" for the bare date and ".json" for a file name.
EXTENDS Integers, Sequences, FiniteSets, TLC

\* ------------------------------------------------------------------ bounds
TicksPerDay == 2
MaxTicks == 2
MaxRecords == 2
MaxSent == 2

\* ------------------------------------------------------- program constants
RETENTION_DAYS == 400
Null == 0 - 1
DefaultSource == "Amboss.space"

TZOffsets == {0 - 1, 0, 1}
\* The clock starts at noon UTC of day RETENTION_DAYS + 1, so that the days
\* 1 and 2 are 400 and 399 days old, and 401 and 400 days old one day later.
StartNow == (RETENTION_DAYS + 1) * TicksPerDay + 1
MaxNow == StartNow + MaxTicks

\* ----------------------------------------------------------------- inputs
StatsA ==
  [timestamp |-> 5, memberCount |-> 100, totalChannels |-> 50,
   totalCapacity |-> 10, blockHeight |-> 900, source |-> "Amboss.space"]
StatsB ==
  [timestamp |-> 3, memberCount |-> 90, totalChannels |-> 45,
   totalCapacity |-> 9, blockHeight |-> Null, source |-> "Mempool.space"]
StatsRaw ==
  [timestamp |-> Null, memberCount |-> 0, totalChannels |-> 0,
   totalCapacity |-> 0, blockHeight |-> Null, source |-> ""]
StatsInputs == {StatsA, StatsB, StatsRaw}

\* Date arguments: midnight UTC of the days 1, 2 and 394, and a late instant
\* of day 1.  Statistics with fields left out are stored under the default
\* date only (the posting handlers pass no date).
DateInputs == {1 * TicksPerDay, 1 * TicksPerDay + TicksPerDay - 1,
               2 * TicksPerDay, 394 * TicksPerDay}
\* Range bounds stay within a few days of each other: the file-based range
\* scan visits every day between them.
RangeInputs == {1 * TicksPerDay, 1 * TicksPerDay + TicksPerDay - 1, 2 * TicksPerDay}
DaysAgoInputs == {7, 8}

VARIABLES now, tz, files, rows, last, putF, putR,
          expiryDate, warningDaysStr, check, resp, sent,
          sched, trend,
          fault, limiter, handler
storeVars == <<tz, files, rows, putF, putR>>
expiryVars == <<expiryDate, warningDaysStr, check, resp, sent>>
\* sched and trend hold the latest call of the schedule engine and of the
\* trend analysis: its name, its arguments and what it returned.
pureVars == <<sched, trend>>
\* fault holds a store call whose file-system or database access fails,
\* limiter the rate limiter and the latest request it saw, handler the run
\* of an HTTP handler.
svcVars == <<fault, limiter, handler>>
vars == <<now, last, storeVars, expiryVars, pureVars, svcVars>>

\* ------------------------------------------------------------ JS helpers
NullRet == [isNull |-> TRUE]

\* a || b on a number: 0 and absent are falsy
OrNumber(a, b) == IF a = Null \/ a = 0 THEN b ELSE a
\* a || b on an ISO timestamp string: absent is falsy
OrTime(a, b) == IF a = Null THEN b ELSE a
\* a || b on a string: absent / "" is falsy
OrString(a, b) == IF a = "" THEN b ELSE a

\* getFullYear / getMonth / getDate: the local calendar date of an instant
LocalDay(t, z) == (t + z) \div TicksPerDay
\* new Date("YYYY-MM-DD"): a date-only string is midnight UTC
ParseDate(str) == str.day * TicksPerDay
\* date.setDate(date.getDate() + k): local calendar arithmetic, time of day kept
AddDays(t, k) == t + k * TicksPerDay

\* ----------------------------------------------------- file-based store
getFilename(date, z) == [day |-> LocalDay(date, z), ext |-> ".json"]
StripJson(file) == [day |-> file.day, ext |-> ""]

FileData(stats, t) ==
  [timestamp |-> OrTime(stats.timestamp, t),
   memberCount |-> stats.memberCount,
   totalChannels |-> stats.totalChannels,
   totalCapacity |-> stats.totalCapacity,
   blockHeight |-> OrNumber(stats.blockHeight, Null),
   source |-> OrString(stats.source, DefaultSource),
   storedAt |-> t]

\* Mutant: an existing file is kept instead of being rewritten.
FileStoreStats_keepExisting(fs, stats, date, t, z) ==
  LET fn == getFilename(date, z)
  IN [f \in DOMAIN fs \cup {fn} |-> IF f \in DOMAIN fs THEN fs[f] ELSE FileData(stats, t)]

FileStoreStats(fs, stats, date, t, z) ==
  LET fn == getFilename(date, z)
  IN [f \in DOMAIN fs \cup {fn} |-> IF f = fn THEN FileData(stats, t) ELSE fs[f]]

FileLoadStats(fs, date, z) ==
  LET fn == getFilename(date, z)
  IN IF fn \in DOMAIN fs THEN fs[fn] ELSE NullRet

WithDate(label, stats) == [date |-> label] @@ stats

RECURSIVE FileRangeLoop(_, _, _, _, _)
FileRangeLoop(fs, currentDate, endDate, z, results) ==
  IF currentDate <= endDate
  THEN LET stats == FileLoadStats(fs, currentDate, z)
           next == IF stats # NullRet
                   THEN Append(results, WithDate(getFilename(currentDate, z), stats))
                   ELSE results
       IN FileRangeLoop(fs, AddDays(currentDate, 1), endDate, z, next)
  ELSE results

FileLoadStatsRange(fs, startDate, endDate, z) ==
  FileRangeLoop(fs, startDate, endDate, z, <<>>)

\* readdir + filter + strip + sort: the dates in ascending order
RECURSIVE SortDays(_)
SortDays(S) ==
  IF S = {} THEN <<>>
  ELSE LET m == CHOOSE x \in S : \A y \in S : x.day <= y.day
       IN <<m>> \o SortDays(S \ {m})

FileAvailableDates(fs) == SortDays({StripJson(f) : f \in DOMAIN fs})

FileCleanupDeleted(fs, t) ==
  LET cutoffDate == AddDays(t, 0 - RETENTION_DAYS)
  IN {f \in DOMAIN fs : ParseDate(StripJson(f)) < cutoffDate}

FileGetLatestStats(fs, z) ==
  LET dates == FileAvailableDates(fs)
  IN IF Len(dates) = 0 THEN NullRet
     ELSE LET latestDate == dates[Len(dates)]
              stats == FileLoadStats(fs, ParseDate(latestDate), z)
          IN IF stats # NullRet THEN WithDate(latestDate, stats) ELSE NullRet

FileGetStatsFromDaysAgo(fs, daysAgo, t, z) ==
  LET targetDate == AddDays(t, 0 - daysAgo)
      stats == FileLoadStats(fs, targetDate, z)
  IN IF stats # NullRet THEN WithDate(getFilename(targetDate, z), stats) ELSE NullRet

\* ------------------------------------------------------ relational store
formatDate(date, z) == [day |-> LocalDay(date, z), ext |-> ""]

RowData(stats, date, t, z) ==
  [date |-> formatDate(date, z),
   timestamp |-> OrTime(stats.timestamp, t),
   member_count |-> stats.memberCount,
   total_channels |-> stats.totalChannels,
   total_capacity |-> stats.totalCapacity,
   block_height |-> OrNumber(stats.blockHeight, Null),
   source |-> OrString(stats.source, DefaultSource)]

\* Mutant: a plain INSERT, without the ON DUPLICATE KEY UPDATE clause.
Upsert_insertOnly(tbl, row) == tbl \cup {row}

\* INSERT ... ON DUPLICATE KEY UPDATE on the date key
Upsert(tbl, row) == {r \in tbl : r.date # row.date} \cup {row}

RelStoreStats(tbl, stats, date, t, z) == Upsert(tbl, RowData(stats, date, t, z))

RowStats(row) ==
  [timestamp |-> row.timestamp,
   memberCount |-> row.member_count,
   totalChannels |-> row.total_channels,
   totalCapacity |-> row.total_capacity,
   blockHeight |-> row.block_height,
   source |-> row.source]

\* queryOne: the first row of the result, or null
QueryOne(result) == IF result = {} THEN NullRet ELSE CHOOSE r \in result : TRUE

RelLoadStats(tbl, date, z) ==
  LET row == QueryOne({r \in tbl : r.date = formatDate(date, z)})
  IN IF row = NullRet THEN NullRet ELSE RowStats(row)

RECURSIVE OrderByDate(_)
OrderByDate(S) ==
  IF S = {} THEN <<>>
  ELSE LET m == CHOOSE x \in S : \A y \in S : x.date.day <= y.date.day
       IN <<m>> \o OrderByDate(S \ {m})

RelLoadStatsRange(tbl, startDate, endDate, z) ==
  LET startStr == formatDate(startDate, z)
      endStr == formatDate(endDate, z)
      result == OrderByDate({r \in tbl : startStr.day <= r.date.day /\ r.date.day <= endStr.day})
  IN [i \in 1..Len(result) |-> WithDate(result[i].date, RowStats(result[i]))]

RelCleanupDeleted(tbl, t, z) ==
  LET cutoffStr == formatDate(AddDays(t, 0 - RETENTION_DAYS), z)
  IN {r \in tbl : r.date.day < cutoffStr.day}

RelGetLatestStats(tbl) ==
  LET row == QueryOne({r \in tbl : \A o \in tbl : o.date.day <= r.date.day})
  IN IF row = NullRet THEN NullRet ELSE WithDate(row.date, RowStats(row))

\* Mutant: the target date is formatted in UTC instead of local time.
RelGetStatsFromDaysAgo_utc(tbl, daysAgo, t, z) ==
  LET dateStr == formatDate(AddDays(t, 0 - daysAgo), 0)
      row == QueryOne({r \in tbl : r.date = dateStr})
  IN IF row = NullRet THEN NullRet ELSE WithDate(row.date, RowStats(row))

RelGetStatsFromDaysAgo(tbl, daysAgo, t, z) ==
  LET dateStr == formatDate(AddDays(t, 0 - daysAgo), z)
      row == QueryOne({r \in tbl : r.date = dateStr})
  IN IF row = NullRet THEN NullRet ELSE WithDate(row.date, RowStats(row))

\* --------------------------------------------------------- expiry monitor
\* An expiry setting is absent (undefined, null or ""), a string that
\* new Date() cannot parse, or a parsable date.
ExpiryAbsent == [kind |-> "absent", t |-> Null]
ExpiryGarbage == [kind |-> "invalid", t |-> Null]
ExpiryAt(t) == [kind |-> "date", t |-> t]

\* Expiry instants around the clock: 2.5 days to 1 tick in the past, now,
\* and 1 tick to 8 days ahead.
ExpiryOffsets ==
  {0 - (2 * TicksPerDay + 1), 0 - TicksPerDay, 0 - 1, 0, 1, TicksPerDay,
   3 * TicksPerDay, 7 * TicksPerDay - 1, 7 * TicksPerDay, 8 * TicksPerDay}
ExpiryInputs ==
  {ExpiryAbsent, ExpiryGarbage} \cup {ExpiryAt(StartNow + k) : k \in ExpiryOffsets}

\* The warning-day setting after split(',') and parseInt: one number or NaN
\* per segment.  Thresholds are days before expiry, so they are not negative.
NaN == Null
WarningDaysInputs == {<<7, 3, 1>>, <<7, 3, 1, 0>>, <<8, NaN, 3>>}

\* .filter(d => !isNaN(d))
ParseWarningDays(str) == SelectSeq(str, LAMBDA d : d # NaN)

\* Math.ceil(a / b) for b > 0
CeilDiv(a, b) == 0 - ((0 - a) \div b)

\* warningDays.find(days => x === days): the element found, or undefined
Find(seq, x) == IF \E i \in 1..Len(seq) : seq[i] = x THEN x ELSE Null

\* if (value): undefined and 0 are falsy
Truthy(n) == n # Null /\ n # 0

getUrgencyLevel(days) ==
  IF days <= 1 THEN "critical"
  ELSE IF days <= 3 THEN "high"
  ELSE IF days <= 7 THEN "medium"
  ELSE "low"

\* Mutant: no guard on the expiry date; an absent or unparsable date is read
\* as the epoch.
checkKeyExpiration_unguarded(expiry, warningDays, t) ==
  LET expiryTime == IF expiry.kind = "date" THEN expiry.t ELSE 0
      daysUntilExpiry == CeilDiv(expiryTime - t, TicksPerDay)
      warningDay == Find(warningDays, daysUntilExpiry)
  IN IF Truthy(warningDay)
     THEN [shouldWarn |-> TRUE, error |-> "", daysUntilExpiry |-> warningDay,
           urgency |-> getUrgencyLevel(warningDay), expired |-> FALSE]
     ELSE IF daysUntilExpiry < 0
     THEN [shouldWarn |-> TRUE, error |-> "", daysUntilExpiry |-> 0,
           urgency |-> "expired", expired |-> TRUE]
     ELSE [shouldWarn |-> FALSE, error |-> "", daysUntilExpiry |-> daysUntilExpiry,
           urgency |-> "", expired |-> FALSE]

\* Result fields a return statement leaves out are "" (error, urgency),
\* Null (daysUntilExpiry) and FALSE (expired).
checkKeyExpiration(expiry, warningDays, t) ==
  IF expiry.kind = "absent"
  THEN [shouldWarn |-> FALSE, error |-> "No expiration date configured",
        daysUntilExpiry |-> Null, urgency |-> "", expired |-> FALSE]
  ELSE IF expiry.kind = "invalid"
  THEN [shouldWarn |-> FALSE, error |-> "Invalid expiration date format",
        daysUntilExpiry |-> Null, urgency |-> "", expired |-> FALSE]
  ELSE LET daysUntilExpiry == CeilDiv(expiry.t - t, TicksPerDay)
           warningDay == Find(warningDays, daysUntilExpiry)
       IN IF Truthy(warningDay)
          THEN [shouldWarn |-> TRUE, error |-> "", daysUntilExpiry |-> warningDay,
                urgency |-> getUrgencyLevel(warningDay), expired |-> FALSE]
          ELSE IF daysUntilExpiry < 0
          THEN [shouldWarn |-> TRUE, error |-> "", daysUntilExpiry |-> 0,
                urgency |-> "expired", expired |-> TRUE]
          ELSE [shouldWarn |-> FALSE, error |-> "", daysUntilExpiry |-> daysUntilExpiry,
                urgency |-> "", expired |-> FALSE]

\* new Date().toISOString().substring(0, 10): the UTC calendar date
UtcDay(t) == t \div TicksPerDay

loadNotificationState(t) == [lastNotificationDate |-> Null, today |-> UtcDay(t)]

shouldSendNotification(checkResult, state) ==
  IF ~checkResult.shouldWarn THEN FALSE ELSE TRUE

\* Outcomes of the request checks that precede the expiry check.
SecurityOutcomes == {200, 403, 405, 429}

SentOn(log, d) == IF d \in DOMAIN log THEN log[d] ELSE 0

\* ---------------------------------------------------------- JS strings
\* A string that the code splits, parses or formats is the sequence of its
\* characters; a weekday name, which the code only uses as a key, is a
\* TLA+ string.  NaN is Null; undefined, where a number is expected, is
\* Undefined.
Undefined == 0 - 2
Digits == <<"0", "1", "2", "3", "4", "5", "6", "7", "8", "9">>
IsDigit(c) == \E i \in 1..Len(Digits) : Digits[i] = c
DigitVal(c) == (CHOOSE i \in 1..Len(Digits) : Digits[i] = c) - 1
Has(obj, field) == field \in DOMAIN obj

\* str.split(sep)
RECURSIVE split(_, _)
split(str, sep) ==
  IF \A i \in 1..Len(str) : str[i] # sep
  THEN <<str>>
  ELSE LET i == CHOOSE k \in 1..Len(str) :
                  str[k] = sep /\ \A j \in 1..(k - 1) : str[j] # sep
       IN <<SubSeq(str, 1, i - 1)>> \o split(SubSeq(str, i + 1, Len(str)), sep)

RECURSIVE LeadingDigits(_)
LeadingDigits(str) ==
  IF str = <<>> \/ ~IsDigit(str[1])
  THEN <<>>
  ELSE <<str[1]>> \o LeadingDigits(Tail(str))

RECURSIVE DigitsValue(_)
DigitsValue(ds) ==
  IF ds = <<>>
  THEN 0
  ELSE DigitsValue(SubSeq(ds, 1, Len(ds) - 1)) * 10 + DigitVal(ds[Len(ds)])

\* parseInt(str, 10) and parseInt(str) of an unsigned string: the value of
\* the leading run of digits, NaN when there is none
parseInt(str) ==
  LET ds == LeadingDigits(str)
  IN IF ds = <<>> THEN NaN ELSE DigitsValue(ds)

\* Number(str) of an unsigned string: every character must be a digit, and
\* the empty string is 0
Number(str) ==
  IF \A i \in 1..Len(str) : IsDigit(str[i]) THEN DigitsValue(str) ELSE NaN

\* `${n}`: a number in a template literal
RECURSIVE NumToChars(_)
NumToChars(n) ==
  IF n = NaN THEN <<"N", "a", "N">>
  ELSE IF n = Undefined THEN <<"u", "n", "d", "e", "f", "i", "n", "e", "d">>
  ELSE IF n < 10 THEN <<Digits[n + 1]>>
  ELSE NumToChars(n \div 10) \o <<Digits[(n % 10) + 1]>>

\* array.join(sep) of strings
RECURSIVE join(_, _)
join(strs, sep) ==
  IF strs = <<>> THEN <<>>
  ELSE IF Len(strs) = 1 THEN strs[1]
  ELSE strs[1] \o <<sep>> \o join(Tail(strs), sep)

\* name.toLowerCase() over the weekday names used as inputs
UpperCased ==
  [Monday |-> "monday", MON |-> "mon", Sunday |-> "sunday", Fri |-> "fri"]
toLowerCase(name) == IF name \in DOMAIN UpperCased THEN UpperCased[name] ELSE name

\* ------------------------------------------------------ lib/scheduler.js
Cron(str) == [isNull |-> FALSE, str |-> str]
Star == <<"*">>
LastStr == <<"l", "a", "s", "t">>

\* parseTime(time): no segment is checked; a missing minute is undefined
parseTime(time) ==
  LET parts == split(time, ":")
      nums == [i \in 1..Len(parts) |-> parseInt(parts[i])]
  IN [minute |-> IF Len(nums) >= 2 THEN nums[2] ELSE Undefined,
      hour |-> nums[1]]

CronDayNumbers ==
  [sunday |-> 0, sun |-> 0, monday |-> 1, mon |-> 1, tuesday |-> 2, tue |-> 2,
   wednesday |-> 3, wed |-> 3, thursday |-> 4, thu |-> 4, friday |-> 5,
   fri |-> 5, saturday |-> 6, sat |-> 6]
\* The lower-case names that a plain object inherits from Object.prototype,
\* and the value standing for what they hold: a function or an object, which
\* is truthy and not a number.
ObjectPrototypeNames == {"constructor", "__proto__"}
InheritedMember == 0 - 3
\* days[day.toLowerCase()] || 0
dayToCronNumber(day) ==
  LET key == toLowerCase(day)
  IN IF key \in DOMAIN CronDayNumbers THEN CronDayNumbers[key]
     ELSE IF key \in ObjectPrototypeNames THEN InheritedMember
     ELSE 0

\* `${minute} ${hour} ${dom} ${month} ${dow}`
CronOf(minute, hour, dom, month, dow) ==
  Cron(join(<<NumToChars(minute), NumToChars(hour), dom, month, dow>>, " "))

generateDailyCron(schedule) ==
  IF ~schedule.enabled THEN NullRet
  ELSE LET t == parseTime(schedule.time)
       IN IF Has(schedule, "days") /\ Len(schedule.days) > 0
          THEN LET cronDays ==
                     join([i \in 1..Len(schedule.days) |->
                             NumToChars(dayToCronNumber(schedule.days[i]))], ",")
               IN CronOf(t.minute, t.hour, Star, Star, cronDays)
          ELSE CronOf(t.minute, t.hour, Star, Star, Star)

generateWeeklyCron_noGuard(schedule) ==
  LET t == parseTime(schedule.time)
      dayNumber == dayToCronNumber(schedule.dayOfWeek)
  IN CronOf(t.minute, t.hour, Star, Star, NumToChars(dayNumber))
generateWeeklyCron(schedule) ==
  IF ~schedule.enabled THEN NullRet
  ELSE LET t == parseTime(schedule.time)
           dayNumber == dayToCronNumber(schedule.dayOfWeek)
       IN CronOf(t.minute, t.hour, Star, Star, NumToChars(dayNumber))

generateMonthlyCron_noLast(schedule) ==
  IF ~schedule.enabled THEN NullRet
  ELSE LET t == parseTime(schedule.time)
       IN CronOf(t.minute, t.hour, NumToChars(parseInt(schedule.dayOfMonth)),
                 Star, Star)
generateMonthlyCron(schedule) ==
  IF ~schedule.enabled THEN NullRet
  ELSE LET t == parseTime(schedule.time)
       IN IF schedule.dayOfMonth = LastStr
          THEN CronOf(t.minute, t.hour, <<"2", "8">>, Star, Star)
          ELSE CronOf(t.minute, t.hour, NumToChars(parseInt(schedule.dayOfMonth)),
                      Star, Star)

\* the month and day of schedule.date, "YYYY-MM-DD" or "MM-DD"
DateMonthDay(date) ==
  LET dateParts == split(date, "-")
  IN IF Len(dateParts) = 3
     THEN [month |-> parseInt(dateParts[2]), day |-> parseInt(dateParts[3])]
     ELSE IF Len(dateParts) = 2
     THEN [month |-> parseInt(dateParts[1]), day |-> parseInt(dateParts[2])]
     ELSE [month |-> Undefined, day |-> Undefined]

generateAnnualCron(schedule) ==
  IF ~schedule.enabled THEN NullRet
  ELSE LET t == parseTime(schedule.time)
           md == IF Has(schedule, "date") /\ schedule.date # <<>>
                 THEN DateMonthDay(schedule.date)
                 ELSE [month |-> 12, day |-> 31]
       IN CronOf(t.minute, t.hour, NumToChars(md.day), NumToChars(md.month), Star)

\* the generator generateCronSchedules uses for a category
generateCron(category, schedule) ==
  CASE category = "daily" -> generateDailyCron(schedule)
    [] category = "weekly" -> generateWeeklyCron(schedule)
    [] category = "monthly" -> generateMonthlyCron(schedule)
    [] category = "annual" -> generateAnnualCron(schedule)

\* --------------------------------------- api/scheduler.js matchesSchedule
IsLeapYear(y) == (y % 4 = 0 /\ y % 100 # 0) \/ y % 400 = 0
DaysInMonth(y, m) ==
  IF m = 2 THEN (IF IsLeapYear(y) THEN 29 ELSE 28)
  ELSE IF m \in {4, 6, 9, 11} THEN 30 ELSE 31

\* new Date(year, month, 0).getUTCDate(): the Date constructor takes local
\* time, so this is the UTC date of local midnight of the last day of the
\* month, in a process z ticks east of UTC
LastDayUTCDate(y, m, z) == (DaysInMonth(y, m) * TicksPerDay - z) \div TicksPerDay

DailyDayMap == [sun |-> 0, mon |-> 1, tue |-> 2, wed |-> 3, thu |-> 4, fri |-> 5, sat |-> 6]
WeeklyDayMap ==
  [sunday |-> 0, monday |-> 1, tuesday |-> 2, wednesday |-> 3, thursday |-> 4,
   friday |-> 5, saturday |-> 6]
Lookup(map, key) == IF key \in DOMAIN map THEN map[key] ELSE Undefined

\* now is the UTC calendar reading of the instant:
\* [year, month (1..12), date, day (0 = Sunday), hours, minutes]
matchesSchedule(schedule, n, z) ==
  IF ~schedule.enabled THEN FALSE
  ELSE
  LET currentHour == n.hours
      currentMinute == n.minutes
      currentDay == n.day
      currentDate == n.date
      currentMonth == n.month
      schedHour == Number(split(schedule.time, ":")[1])
      daysOk ==
        ~Has(schedule, "days")
        \/ \E i \in 1..Len(schedule.days) :
             Lookup(DailyDayMap, schedule.days[i]) = currentDay
      dayOfWeekOk ==
        ~Has(schedule, "dayOfWeek")
        \/ currentDay = Lookup(WeeklyDayMap, toLowerCase(schedule.dayOfWeek))
      dayOfMonthOk ==
        ~Has(schedule, "dayOfMonth")
        \/ IF schedule.dayOfMonth = LastStr
           THEN currentDate = LastDayUTCDate(n.year, currentMonth, z)
           ELSE currentDate = parseInt(schedule.dayOfMonth)
      dateOk ==
        ~(Has(schedule, "date") /\ schedule.date # <<>>)
        \/ LET md == DateMonthDay(schedule.date)
           IN currentMonth = md.month /\ currentDate = md.day
  IN IF currentHour # schedHour \/ currentMinute # 0 THEN FALSE
     ELSE daysOk /\ dayOfWeekOk /\ dayOfMonthOk /\ dateOk

\* checkScheduleConflicts(schedules): schedules is the list of the entries
\* [type, nostr, telegram] of the object in insertion order; timeSlots maps
\* <<platform, cron>> to the type first seen with it
Platforms == <<"nostr", "telegram">>
SlotList(schedules) ==
  [k \in 1..(2 * Len(schedules)) |->
     LET e == schedules[(k + 1) \div 2]
         platform == Platforms[2 - (k % 2)]
     IN [type |-> e.type, platform |-> platform, cron |-> e[platform]]]
CronTruthy(cron) == ~cron.isNull /\ cron.str # <<>>

\* `${platform}-${cron}`
SlotKey_cronOnly(s) == <<"", s.cron>>
SlotKey(s) == <<s.platform, s.cron>>

RECURSIVE ConflictLoop(_, _, _)
ConflictLoop(slots, timeSlots, conflicts) ==
  IF slots = <<>> THEN conflicts
  ELSE LET s == slots[1]
           key == SlotKey(s)
       IN IF ~CronTruthy(s.cron)
          THEN ConflictLoop(Tail(slots), timeSlots, conflicts)
          ELSE IF key \in DOMAIN timeSlots
          THEN ConflictLoop(Tail(slots), timeSlots,
                 Append(conflicts,
                        [time |-> s.cron.str, platform |-> s.platform,
                         conflicting |-> <<timeSlots[key], s.type>>]))
          ELSE ConflictLoop(Tail(slots), timeSlots @@ (key :> s.type), conflicts)

checkScheduleConflicts(schedules) ==
  ConflictLoop(SlotList(schedules), [k \in {} |-> ""], <<>>)

\* cronExpression.trim().split(/\s+/): the fields between runs of blanks
RECURSIVE SplitBlanks(_, _, _)
SplitBlanks(str, field, fields) ==
  IF str = <<>>
  THEN (IF field = <<>> THEN fields ELSE Append(fields, field))
  ELSE IF str[1] = " "
  THEN SplitBlanks(Tail(str), <<>>,
                   IF field = <<>> THEN fields ELSE Append(fields, field))
  ELSE SplitBlanks(Tail(str), Append(field, str[1]), fields)
\* "".split(/\s+/) is [""]
trimSplit(str) ==
  LET fields == SplitBlanks(str, <<>>, <<>>)
  IN IF fields = <<>> THEN << <<>> >> ELSE fields

isValidRange(value, min, max) ==
  IF value = Star THEN TRUE
  ELSE LET num == parseInt(value)
       IN num # NaN /\ num >= min /\ num <= max

\* cron is NullRet for a value that is not a string
validateCronExpression(cron) ==
  IF cron.isNull \/ cron.str = <<>> THEN FALSE
  ELSE LET parts == trimSplit(cron.str)
       IN IF Len(parts) # 5 THEN FALSE
          ELSE /\ isValidRange(parts[1], 0, 59)
               /\ isValidRange(parts[2], 0, 23)
               /\ isValidRange(parts[3], 1, 31)
               /\ isValidRange(parts[4], 1, 12)
               /\ isValidRange(parts[5], 0, 6)

\* ------------------------------------------------- schedule engine inputs
\* Times of day: well-formed ones, and ones with a non-numeric segment, an
\* out-of-range segment and a missing segment.
TimeInputs ==
  { <<"1", "6", ":", "0", "0">>, <<"1", "6", ":", "3", "0">>,
    <<"0", "9", ":", "0", "5">>,
    <<"a", "b", ":", "0", "0">>, <<"2", "5", ":", "9", "9">>, <<"1", "6">> }
DaysInputs ==
  { <<"mon", "tue", "wed", "thu", "fri", "sat", "sun">>, <<"mon", "wed">>,
    <<>>, <<"monday">>, <<"MON">> }
DayOfWeekInputs == {"sunday", "Monday", "mon", "Fri"}
\* names handed to dayToCronNumber: every key of its table, mixed-case forms,
\* and names that are no weekday
DayNameInputs ==
  DOMAIN CronDayNumbers \cup DOMAIN UpperCased
    \cup {"funday", "", "everyday", "constructor"}
DayOfMonthInputs == { <<"1">>, <<"2", "8">>, <<"3", "1">>, LastStr }
DateInputsAnnual ==
  { <<"2", "0", "2", "5", "-", "1", "2", "-", "3", "1">>,
    <<"0", "2", "-", "2", "9">>, <<>> }

\* a category's schedule as the admin page saves it: the category's own day
\* field, or none
ScheduleInputs ==
  LET base == {[enabled |-> e, time |-> t] : e \in BOOLEAN, t \in TimeInputs}
  IN    {[category |-> "daily", schedule |-> b] : b \in base}
   \cup {[category |-> "daily", schedule |-> b @@ [days |-> d]] :
           b \in base, d \in DaysInputs}
   \cup {[category |-> "weekly", schedule |-> b @@ [dayOfWeek |-> d]] :
           b \in base, d \in DayOfWeekInputs}
   \cup {[category |-> "monthly", schedule |-> b @@ [dayOfMonth |-> d]] :
           b \in base, d \in DayOfMonthInputs}
   \cup {[category |-> "annual", schedule |-> b] : b \in base}
   \cup {[category |-> "annual", schedule |-> b @@ [date |-> d]] :
           b \in base, d \in DateInputsAnnual}

\* UTC calendar readings: ends of months of 28, 29, 30 and 31 days and the
\* days before them, a Sunday and a Monday
ClockDates ==
  { [year |-> 2024, month |-> 2, date |-> 28, day |-> 3],
    [year |-> 2024, month |-> 2, date |-> 29, day |-> 4],
    [year |-> 2025, month |-> 2, date |-> 27, day |-> 4],
    [year |-> 2025, month |-> 2, date |-> 28, day |-> 5],
    [year |-> 2025, month |-> 4, date |-> 29, day |-> 2],
    [year |-> 2025, month |-> 4, date |-> 30, day |-> 3],
    [year |-> 2025, month |-> 12, date |-> 30, day |-> 2],
    [year |-> 2025, month |-> 12, date |-> 31, day |-> 3],
    [year |-> 2025, month |-> 6, date |-> 1, day |-> 0],
    [year |-> 2025, month |-> 6, date |-> 2, day |-> 1] }
ClockInputs ==
  {d @@ [hours |-> h, minutes |-> m] :
     d \in ClockDates, h \in {9, 16}, m \in {0, 5, 30}}

\* expressions supplied from outside, and the ones the generators emit
CronTextInputs ==
  { <<"0", " ", "1", "6", " ", "*", " ", "*", " ", "*">>,
    <<"5", "9", " ", "2", "3", " ", "3", "1", " ", "1", "2", " ", "6">>,
    <<"0", " ", "0", " ", "1", " ", "1", " ", "0">>,
    <<"6", "0", " ", "0", " ", "*", " ", "*", " ", "*">>,
    <<"0", " ", "2", "4", " ", "*", " ", "*", " ", "*">>,
    <<"0", " ", "0", " ", "0", " ", "*", " ", "*">>,
    <<"0", " ", "0", " ", "3", "2", " ", "*", " ", "*">>,
    <<"0", " ", "0", " ", "*", " ", "0", " ", "*">>,
    <<"0", " ", "0", " ", "*", " ", "1", "3", " ", "*">>,
    <<"0", " ", "0", " ", "*", " ", "*", " ", "7">>,
    <<"0", " ", "1", "6", " ", "*", " ", "*">>,
    <<"0", " ", "1", "6", " ", "*", " ", "*", " ", "*", " ", "*">>,
    <<" ", " ", "0", " ", " ", "1", "6", " ", "*", " ", "*", " ", " ", "*", " ">>,
    <<"0", " ", "1", "6", " ", "*", " ", "*", " ", "1", ",", "3">>,
    <<"0", " ", "1", "6", " ", "*", " ", "*", " ", "7", ",", "1">>,
    <<"5", "x", " ", "1", "6", " ", "*", " ", "*", " ", "*">>,
    <<"x", "5", " ", "1", "6", " ", "*", " ", "*", " ", "*">>,
    <<"*", "/", "5", " ", "*", " ", "*", " ", "*", " ", "*">>,
    <<"*", " ", "*", " ", "*", " ", "*", " ", "*">>,
    <<" ">> }
CronExprInputs ==
  {Cron(str) : str \in CronTextInputs}
  \cup {generateCron(cs.category, cs.schedule) : cs \in ScheduleInputs}
  \cup {NullRet, Cron(<<>>)}

\* cron expressions that differ in one field, and no expression
CronA == Cron(<<"0", " ", "1", "6", " ", "*", " ", "*", " ", "*">>)
CronB == Cron(<<"0", " ", "1", "6", " ", "*", " ", "*", " ", "0">>)
CronInputs == {NullRet, CronA, CronB}
ConflictInputs ==
  LET entries(type) == {[type |-> type, nostr |-> n, telegram |-> t] :
                          n \in CronInputs, t \in CronInputs}
  IN {<<d, w, m>> : d \in entries("daily"), w \in entries("weekly"),
                    m \in entries("monthly")}

\* ------------------------------------------------- lib/trendAnalysis.js
\* A percentage is the exact fraction num / den with den > 0; the counts are
\* small integers, for which the floating-point quotient falls on the same
\* side of 5, 0 and -5 as the fraction.
Pct(n, d) == IF d < 0 THEN [num |-> 0 - n, den |-> 0 - d] ELSE [num |-> n, den |-> d]
PctGreater(p, k) == p.num > k * p.den
PctLess(p, k) == p.num < k * p.den

\* Mutant: no change is reported when previous is 0.
calculatePercentageChange_zeroIsFlat(current, previous) ==
  IF previous = 0 THEN Pct(0, 1)
  ELSE Pct((current - previous) * 100, previous)
calculatePercentageChange(current, previous) ==
  IF previous = 0
  THEN (IF current > 0 THEN Pct(100, 1) ELSE Pct(0, 1))
  ELSE Pct((current - previous) * 100, previous)

calculateAbsoluteChange(current, previous) == current - previous

\* The indicators are emoji: rocket, chart with upwards trend, chart with
\* downwards trend, bar chart, right arrow.
\* Mutant: exactly 5 percent counts as significant growth.
getTrendIndicator_inclusive(percentageChange) ==
  IF ~PctLess(percentageChange, 5) THEN "rocket"
  ELSE IF PctGreater(percentageChange, 0) THEN "chart-up"
  ELSE IF PctLess(percentageChange, 0 - 5) THEN "chart-down"
  ELSE IF PctLess(percentageChange, 0) THEN "bar-chart"
  ELSE "right-arrow"
getTrendIndicator(percentageChange) ==
  IF PctGreater(percentageChange, 5) THEN "rocket"
  ELSE IF PctGreater(percentageChange, 0) THEN "chart-up"
  ELSE IF PctLess(percentageChange, 0 - 5) THEN "chart-down"
  ELSE IF PctLess(percentageChange, 0) THEN "bar-chart"
  ELSE "right-arrow"

\* { current: current.date || 'current', previous: previous.date || 'previous' }
Period(current, previous) ==
  [current |-> IF Has(current, "date") THEN current.date ELSE "current",
   previous |-> IF Has(previous, "date") THEN previous.date ELSE "previous"]

MetricTrend(current, previous) ==
  LET percentage == calculatePercentageChange(current, previous)
  IN [current |-> current, previous |-> previous,
      absolute |-> calculateAbsoluteChange(current, previous),
      percentage |-> percentage,
      indicator |-> getTrendIndicator(percentage)]

\* Mutant: the previous snapshot is looked at first.
analyzeTrends_previousFirst(current, previous) ==
  IF current = NullRet \/ previous = NullRet
  THEN [available |-> FALSE,
        reason |-> IF previous = NullRet THEN "No previous data" ELSE "No current data"]
  ELSE [available |-> TRUE,
        period |-> Period(current, previous),
        members |-> MetricTrend(current.memberCount, previous.memberCount),
        channels |-> MetricTrend(current.totalChannels, previous.totalChannels),
        capacity |-> MetricTrend(current.totalCapacity, previous.totalCapacity)]
analyzeTrends(current, previous) ==
  IF current = NullRet \/ previous = NullRet
  THEN [available |-> FALSE,
        reason |-> IF current = NullRet THEN "No current data" ELSE "No previous data"]
  ELSE [available |-> TRUE,
        period |-> Period(current, previous),
        members |-> MetricTrend(current.memberCount, previous.memberCount),
        channels |-> MetricTrend(current.totalChannels, previous.totalChannels),
        capacity |-> MetricTrend(current.totalCapacity, previous.totalCapacity)]

\* generateWeeklyReport, generateMonthlyReport and generateAnnualReport differ
\* in the look-back and the labels only; current and previous are what
\* getLatestStats() and getStatsFromDaysAgo(daysAgo) returned.
ReportKinds ==
  { [type |-> "weekly", period |-> "7 days", daysAgo |-> 7],
    [type |-> "monthly", period |-> "30 days", daysAgo |-> 30],
    [type |-> "annual", period |-> "365 days", daysAgo |-> 365] }
TrendReport(kind, current, previous) ==
  [type |-> kind.type, period |-> kind.period,
   analysis |-> analyzeTrends(current, previous), success |-> TRUE]

\* ------------------------------------------------- trend analysis inputs
CountInputs == {0, 18, 19, 20, 21, 22, 90, 100}
PercentInputs ==
  {calculatePercentageChange(c, p) : c \in CountInputs, p \in CountInputs}
  \cup {Pct(n, 2) : n \in {0 - 11, 0 - 10, 0 - 9, 0 - 1, 0, 1, 9, 10, 11}}
SnapshotInputs ==
  {[memberCount |-> m, totalChannels |-> c, totalCapacity |-> k] :
     m \in {0, 90, 100}, c \in {0, 45, 50}, k \in {0, 9, 10}}
  \cup {NullRet}

\* ------------------------------------------- store calls and I/O failure
\* io is the outcome of the file-system or database access a call makes:
\* "ok", or "error" for a failure other than a missing file (EACCES, a lost
\* connection).  A call returns its value or throws.
Thrown == [threw |-> TRUE]
IoOutcomes == {"ok", "error"}

\* storeStats, loadStats, loadStatsRange, cleanupOldData: catch, log, rethrow
Rethrow(io, value) == IF io = "error" THEN Thrown ELSE value
\* getLatestStats, getStatsFromDaysAgo (and getAvailableDates, with []):
\* catch, log, return null
ReturnNull(io, value) == IF io = "error" THEN NullRet ELSE value

FileStoreStatsOutcome(io, fs, stats, date, z) == Rethrow(io, getFilename(date, z))
RelStoreStatsOutcome(io, tbl, stats, date, z) == Rethrow(io, formatDate(date, z))
FileLoadStatsOutcome(io, fs, date, z) == Rethrow(io, FileLoadStats(fs, date, z))
RelLoadStatsOutcome(io, tbl, date, z) == Rethrow(io, RelLoadStats(tbl, date, z))
FileLoadStatsRangeOutcome(io, fs, startDate, endDate, z) ==
  Rethrow(io, FileLoadStatsRange(fs, startDate, endDate, z))
RelLoadStatsRangeOutcome(io, tbl, startDate, endDate, z) ==
  Rethrow(io, RelLoadStatsRange(tbl, startDate, endDate, z))
FileCleanupOutcome(io, fs, t) == Rethrow(io, Cardinality(FileCleanupDeleted(fs, t)))
RelCleanupOutcome(io, tbl, t, z) == Rethrow(io, Cardinality(RelCleanupDeleted(tbl, t, z)))
FileGetLatestStatsOutcome(io, fs, z) == ReturnNull(io, FileGetLatestStats(fs, z))
RelGetLatestStatsOutcome(io, tbl) == ReturnNull(io, RelGetLatestStats(tbl))
FileGetStatsFromDaysAgoOutcome(io, fs, daysAgo, t, z) ==
  ReturnNull(io, FileGetStatsFromDaysAgo(fs, daysAgo, t, z))
RelGetStatsFromDaysAgoOutcome(io, tbl, daysAgo, t, z) ==
  ReturnNull(io, RelGetStatsFromDaysAgo(tbl, daysAgo, t, z))

\* ------------------------------------------------------------------ lib/security.js
\* Defaults of securityMiddleware, which every posting endpoint passes again.
maxRequests == 3
windowMs == 60 * 60 * 1000

\* Date.now() advances in steps of twenty minutes, so that a window holds
\* three steps and its boundary falls exactly on a step.
ClockStepMs == 20 * 60 * 1000
MaxClockSteps == 3
\* Number of requests one run of the limiter receives.
MaxRequestsSeen == 4

ClientIps == {"10.0.0.1", "10.0.0.2"}
Methods == {"GET", "DELETE"}
UserAgents == {"Mozilla/5.0", "curl/8.0"}
\* What the x-cron-secret / x-api-key header holds: nothing, the configured
\* value, or some other value.
HeaderValues == {"absent", "right", "wrong"}

\* The in-memory map of security.js: the timestamps kept for each key.
rateLimitStoreEmpty == [ip \in ClientIps |-> << >>]

RECURSIVE filterAfter(_, _)
filterAfter(requests, windowStart) ==
  IF requests = << >> THEN << >>
  ELSE IF Head(requests) > windowStart
       THEN <<Head(requests)>> \o filterAfter(Tail(requests), windowStart)
       ELSE filterAfter(Tail(requests), windowStart)

\* rateLimit(key, maxRequests, windowMs) at Date.now() = t: the result and the
\* map afterwards. A refused request leaves the map as it was.
rateLimit(store, key, limit, window, t) ==
  LET windowStart == t - window
      validRequests == filterAfter(store[key], windowStart)
  IN IF Len(validRequests) >= limit
     THEN [result |-> [allowed |-> FALSE, remaining |-> 0,
                       retryAfter |-> CeilDiv(validRequests[1] + window - t, 1000)],
           store |-> store]
     ELSE [result |-> [allowed |-> TRUE, remaining |-> limit - Len(validRequests) - 1,
                       retryAfter |-> 0],
           store |-> [store EXCEPT ![key] = Append(validRequests, t)]]

\* env.cronSecret / env.apiKey say whether CRON_SECRET / API_KEY is configured.
validateCronSecret(env, req) ==
  IF ~env.cronSecret THEN TRUE ELSE req.cronSecret = "right"

validateApiKey(env, req) ==
  IF ~env.apiKey THEN FALSE ELSE req.apiKey = "right"

validateMethod(req, allowedMethods) == req.method \in allowedMethods

\* The user agents that match one of allowedPatterns / suspiciousPatterns.
AllowedAgents == {"Mozilla/5.0"}
SuspiciousAgents == {"curl/8.0"}
validateUserAgent(req) ==
  IF req.userAgent \in AllowedAgents THEN TRUE
  ELSE IF req.userAgent \in SuspiciousAgents THEN FALSE
  ELSE TRUE

\* securityMiddleware(req, res, {maxRequests, windowMs, allowedMethods,
\* requireAuth: true}): the check's result and the map afterwards.
securityMiddleware(env, store, req, t) ==
  IF ~validateMethod(req, {"GET", "POST"})
  THEN [check |-> [allowed |-> FALSE, status |-> 405, retryAfter |-> Null], store |-> store]
  ELSE IF ~validateUserAgent(req)
  THEN [check |-> [allowed |-> FALSE, status |-> 403, retryAfter |-> Null], store |-> store]
  ELSE LET hasCronSecret == validateCronSecret(env, req)
           hasApiKey == validateApiKey(env, req)
       IN IF ~hasCronSecret /\ ~hasApiKey
          THEN LET rateCheck == rateLimit(store, req.ip, maxRequests, windowMs, t)
               IN IF ~rateCheck.result.allowed
                  THEN [check |-> [allowed |-> FALSE, status |-> 429,
                                   retryAfter |-> rateCheck.result.retryAfter],
                        store |-> rateCheck.store]
                  ELSE [check |-> [allowed |-> TRUE, status |-> 200, retryAfter |-> Null],
                        store |-> rateCheck.store]
          ELSE [check |-> [allowed |-> TRUE, status |-> 200, retryAfter |-> Null],
                store |-> store]

RequestInputs ==
  [ip : ClientIps, method : Methods, userAgent : UserAgents,
   cronSecret : HeaderValues, apiKey : {"absent", "right"}]

\* ------------------------------------------------------------------ generateCronSchedules
\* schedule.platforms?.[platform]?.enabled
PlatformEnabled(schedule, platform) ==
  /\ Has(schedule, "platforms")
  /\ Has(schedule.platforms, platform)
  /\ schedule.platforms[platform].enabled

\* { nostr: ...enabled ? cron : null, telegram: ...enabled ? cron : null }
CategoryEntry_allChannels(schedule, cron) ==
  [nostr |-> cron, telegram |-> cron]
CategoryEntry(schedule, cron) ==
  [nostr |-> IF PlatformEnabled(schedule, "nostr") THEN cron ELSE NullRet,
   telegram |-> IF PlatformEnabled(schedule, "telegram") THEN cron ELSE NullRet]

\* One of the four blocks of generateCronSchedules: the entry of a category
\* that is configured and whose generator returns an expression.
CategoryBlock(schedules, category, cron) ==
  IF Has(schedules, category) /\ CronTruthy(cron)
  THEN [c \in {category} |-> CategoryEntry(schedules[category], cron)]
  ELSE [c \in {} |-> NullRet]

\* generateCronSchedules(config); a config without schedules yields {}.
generateCronSchedules(config) ==
  IF ~Has(config, "schedules") THEN [c \in {} |-> NullRet]
  ELSE LET schedules == config.schedules
           cronOf(category) ==
             IF ~Has(schedules, category) THEN NullRet
             ELSE CASE category = "daily" -> generateDailyCron(schedules.daily)
                    [] category = "weekly" -> generateWeeklyCron(schedules.weekly)
                    [] category = "monthly" -> generateMonthlyCron(schedules.monthly)
                    [] category = "annual" -> generateAnnualCron(schedules.annual)
       IN    CategoryBlock(schedules, "daily", cronOf("daily"))
          @@ CategoryBlock(schedules, "weekly", cronOf("weekly"))
          @@ CategoryBlock(schedules, "monthly", cronOf("monthly"))
          @@ CategoryBlock(schedules, "annual", cronOf("annual"))

\* the platforms part of a category as the admin page saves it, or none
PlatformsInputs ==
  { [nostr |-> [enabled |-> TRUE], telegram |-> [enabled |-> FALSE]],
    [telegram |-> [enabled |-> TRUE]],
    [nostr |-> [enabled |-> TRUE], telegram |-> [enabled |-> TRUE]] }

\* what a configuration holds for one category: nothing, or a schedule
CategoryInputs(category, fields) ==
  LET base == {[enabled |-> e, time |-> <<"1", "6", ":", "0", "0">>] @@ fields :
                 e \in BOOLEAN}
      all == base \cup {b @@ [platforms |-> p] : b \in base, p \in PlatformsInputs}
  IN {[c \in {} |-> NullRet]} \cup {[c \in {category} |-> sch] : sch \in all}

\* configurations: any part of the four categories, with or without a
\* category the generator does not know
ConfigInputs ==
  {[version |-> 1]} \cup
  {[schedules |-> d @@ w @@ m @@ a @@ h] :
     d \in CategoryInputs("daily", [c \in {} |-> NullRet]),
     w \in CategoryInputs("weekly", [dayOfWeek |-> "Monday"]),
     m \in CategoryInputs("monthly", [dayOfMonth |-> LastStr]),
     a \in CategoryInputs("annual", [c \in {} |-> NullRet]),
     h \in {[c \in {} |-> NullRet],
            [hourly |-> [enabled |-> TRUE, time |-> <<"1", "6", ":", "0", "0">>,
                         platforms |-> [nostr |-> [enabled |-> TRUE],
                                        telegram |-> [enabled |-> TRUE]]]]}}

\* ------------------------------------------------------------------ api/admin/schedule.js
\* Object.entries(schedules) of a generateCronSchedules result, which inserts
\* daily, weekly, monthly, annual in this order.
CategoryOrder == <<"daily", "weekly", "monthly", "annual">>
ObjectEntries(schedules) ==
  LET present == SelectSeq(CategoryOrder, LAMBDA c : c \in DOMAIN schedules)
  IN [i \in 1..Len(present) |->
        [type |-> present[i], nostr |-> schedules[present[i]].nostr,
         telegram |-> schedules[present[i]].telegram]]

\* The schedule_config table: no row, or the row with id 1.
NoRow == [isNull |-> TRUE]
Row(config) == [isNull |-> FALSE, config |-> config]

\* saveScheduleConfig(config) when the query succeeds (db = "ok") or throws:
\* the row afterwards and the returned flag.
saveScheduleConfig(row, db, config) ==
  IF db = "ok" THEN [row |-> Row(config), saved |-> TRUE]
  ELSE [row |-> row, saved |-> FALSE]

defaultConfig ==
  [categories |-> [daily |-> TRUE, weekly |-> FALSE, monthly |-> FALSE,
                   annual |-> FALSE]]

\* loadScheduleConfig(): the stored configuration, or the default one after
\* an attempt to store it; the query's failure is rethrown.
loadScheduleConfig(row, db) ==
  IF db # "ok" THEN [threw |-> TRUE, row |-> row]
  ELSE IF ~row.isNull THEN [threw |-> FALSE, row |-> row, config |-> row.config]
  ELSE [threw |-> FALSE, row |-> saveScheduleConfig(row, db, defaultConfig).row,
        config |-> defaultConfig]

Answer(status) == [status |-> status]

\* The POST branch of the handler: the row afterwards, the configurations
\* handed to saveScheduleConfig, and the response.
PostSchedule_rejectConflicts(row, db, body) ==
  IF ~Has(body, "schedules")
  THEN [row |-> row, saves |-> <<>>, res |-> Answer(400)]
  ELSE LET config == [schedules |-> body.schedules]
           cronSchedules == generateCronSchedules(config)
           conflicts == checkScheduleConflicts(ObjectEntries(cronSchedules))
       IN IF Len(conflicts) > 0
          THEN [row |-> row, saves |-> <<>>, res |-> Answer(400)]
          ELSE LET save == saveScheduleConfig(row, db, config)
               IN [row |-> save.row, saves |-> <<config>>,
                   res |-> Answer(200) @@
                           [saved |-> TRUE, conflicts |-> 0, conflictDetails |-> <<>>,
                            cronSchedules |-> cronSchedules]]
PostSchedule(row, db, body) ==
  IF ~Has(body, "schedules")
  THEN [row |-> row, saves |-> <<>>, res |-> Answer(400)]
  ELSE LET config == [schedules |-> body.schedules]
           cronSchedules == generateCronSchedules(config)
           conflicts == checkScheduleConflicts(ObjectEntries(cronSchedules))
           save == saveScheduleConfig(row, db, config)
       IN IF ~save.saved
          THEN [row |-> save.row, saves |-> <<config>>, res |-> Answer(500)]
          ELSE [row |-> save.row, saves |-> <<config>>,
                res |-> Answer(200) @@
                        [saved |-> TRUE, conflicts |-> Len(conflicts),
                         conflictDetails |-> conflicts,
                         cronSchedules |-> cronSchedules]]

\* The GET branch of the handler.
GetSchedule(row, db) ==
  LET load == loadScheduleConfig(row, db)
  IN IF load.threw
     THEN [row |-> load.row, saves |-> <<>>, res |-> Answer(500)]
     ELSE LET cronSchedules == generateCronSchedules(load.config)
          IN [row |-> load.row,
              saves |-> IF row.isNull THEN <<defaultConfig>> ELSE <<>>,
              res |-> Answer(200) @@
                      [configuration |-> load.config, cronSchedules |-> cronSchedules,
                       conflicts |-> checkScheduleConflicts(ObjectEntries(cronSchedules))]]

\* req.headers['x-api-key'] || process.env.ADMIN_TOKEN, compared with
\* process.env.ADMIN_TOKEN; env.adminToken says whether it is configured.
AdminTokenAccepted(env, req) ==
  /\ env.adminToken
  /\ req.apiKey \in {"absent", "right"}

\* handler(req, res) of the admin schedule endpoint.
adminScheduleHandler(env, row, db, req) ==
  IF req.method = "OPTIONS"
  THEN [row |-> row, saves |-> <<>>, res |-> Answer(200)]
  ELSE IF ~AdminTokenAccepted(env, req)
  THEN [row |-> row, saves |-> <<>>, res |-> Answer(401)]
  ELSE IF req.method = "GET" THEN GetSchedule(row, db)
  ELSE IF req.method = "POST" THEN PostSchedule(row, db, req.body)
  ELSE [row |-> row, saves |-> <<>>, res |-> Answer(405)]

\* request bodies: no schedules, or daily / weekly / monthly schedules at
\* 16:00, among them a daily one restricted to Mondays beside a weekly one
\* on Monday
AdminBodyInputs ==
  LET time == <<"1", "6", ":", "0", "0">>
      none == [c \in {} |-> NullRet]
      both == [nostr |-> [enabled |-> TRUE], telegram |-> [enabled |-> TRUE]]
      nostrOnly == [nostr |-> [enabled |-> TRUE], telegram |-> [enabled |-> FALSE]]
      daily == {none} \cup
               {[daily |-> [enabled |-> e, time |-> time, platforms |-> p] @@ d] :
                  e \in BOOLEAN, p \in {both, nostrOnly},
                  d \in {none, [days |-> <<"monday">>]}}
      weekly == {none} \cup
                {[weekly |-> [enabled |-> e, time |-> time, dayOfWeek |-> "Monday",
                              platforms |-> p]] :
                   e \in BOOLEAN, p \in {both, nostrOnly}}
      monthly == {none,
                  [monthly |-> [enabled |-> TRUE, time |-> time,
                                dayOfMonth |-> LastStr, platforms |-> both]]}
  IN {[updateVercel |-> FALSE]} \cup
     {[schedules |-> d @@ w @@ m] : d \in daily, w \in weekly, m \in monthly}

AdminRequestInputs ==
  {[method |-> m, apiKey |-> k, body |-> b] :
     m \in {"OPTIONS", "GET", "PUT"}, k \in {"absent", "right", "wrong"},
     b \in {[updateVercel |-> FALSE]}}
  \cup {[method |-> "POST", apiKey |-> k, body |-> b] :
          k \in {"right", "wrong"}, b \in AdminBodyInputs}

\* ------------------------------------------------------------------ api/telegram-post.js
\* What one run of the daily Telegram handler meets: the request's method,
\* the outcome of securityMiddleware, the environment, what the fetches
\* return, whether Math.random() < 0.1, and whether the store, the cleanup
\* and the Telegram API fail.
PostInputs ==
  [method : {"OPTIONS", "GET"}, securityStatus : {200, 429},
   telegramValid : BOOLEAN, ambossApiKey : BOOLEAN, communityId : BOOLEAN,
   stats : {NullRet, [StatsA EXCEPT !.blockHeight = Null]},
   blockHeight : {Null, 900}, storeIo : IoOutcomes, runCleanup : BOOLEAN,
   cleanupIo : IoOutcomes, sendIo : IoOutcomes]

\* The try block around storeStats and cleanupOldData: the stores afterwards,
\* the calls made, and whether an error was caught.
StoreStep(in, fs, tbl, t, z) ==
  LET statsToStore == [in.stats EXCEPT !.blockHeight = in.blockHeight]
      fs1 == FileStoreStats(fs, statsToStore, t, t, z)
      tbl1 == RelStoreStats(tbl, statsToStore, t, t, z)
  IN IF in.storeIo = "error"
     THEN [files |-> fs, rows |-> tbl, steps |-> <<"storeStats">>, caught |-> TRUE]
     ELSE IF ~in.runCleanup
     THEN [files |-> fs1, rows |-> tbl1, steps |-> <<"storeStats">>, caught |-> FALSE]
     ELSE IF in.cleanupIo = "error"
     THEN [files |-> fs1, rows |-> tbl1,
           steps |-> <<"storeStats", "cleanupOldData">>, caught |-> TRUE]
     ELSE [files |-> [f \in DOMAIN fs1 \ FileCleanupDeleted(fs1, t) |-> fs1[f]],
           rows |-> tbl1 \ RelCleanupDeleted(tbl1, t, z),
           steps |-> <<"storeStats", "cleanupOldData">>, caught |-> FALSE]

\* What follows the try block: the message is formatted and sent; a failing
\* send reaches the handler's catch.
SendStep_ifStored(in, store) ==
  IF store.caught
  THEN [files |-> store.files, rows |-> store.rows, steps |-> store.steps,
        res |-> [status |-> 500, sent |-> FALSE]]
  ELSE [files |-> store.files, rows |-> store.rows,
        steps |-> store.steps \o <<"sendMessage">>,
        res |-> IF in.sendIo = "ok" THEN [status |-> 200, sent |-> TRUE]
                ELSE [status |-> 500, sent |-> FALSE]]
SendStep(in, store) ==
  [files |-> store.files, rows |-> store.rows,
   steps |-> store.steps \o <<"sendMessage">>,
   res |-> IF in.sendIo = "ok" THEN [status |-> 200, sent |-> TRUE]
           ELSE [status |-> 500, sent |-> FALSE]]

\* handler(req, res) of the daily Telegram endpoint.
telegramPostHandler(in, fs, tbl, t, z) ==
  LET stop(status, steps) ==
        [files |-> fs, rows |-> tbl, steps |-> steps,
         res |-> [status |-> status, sent |-> FALSE]]
  IN IF in.method = "OPTIONS" THEN stop(200, <<>>)
     ELSE IF in.securityStatus # 200 THEN stop(in.securityStatus, <<>>)
     ELSE IF ~in.telegramValid THEN stop(400, <<>>)
     ELSE IF ~in.ambossApiKey THEN stop(400, <<>>)
     ELSE IF ~in.communityId THEN stop(400, <<>>)
     ELSE IF in.stats = NullRet THEN stop(200, <<"fetchCommunityStats">>)
     ELSE LET done == SendStep(in, StoreStep(in, fs, tbl, t, z))
          IN [done EXCEPT !.steps = <<"fetchCommunityStats", "fetchBlockData">> \o @]

\* ------------------------------------------------------------------ api/scheduler.js handler
\* Object.entries(config.schedules || {}): the categories in the order the
\* admin page writes them, a category the scheduler does not know last.
EntryOrder == <<"daily", "weekly", "monthly", "annual", "hourly">>
ScheduleEntries(config) ==
  IF ~Has(config, "schedules") THEN <<>>
  ELSE LET present == SelectSeq(EntryOrder, LAMBDA c : c \in DOMAIN config.schedules)
       IN [i \in 1..Len(present) |->
             [type |-> present[i], schedule |-> config.schedules[present[i]]]]

\* executePost(type, platform) returns a handler for these, null otherwise.
HasPostHandler(type, platform) ==
  \/ type = "daily" /\ platform \in {"nostr", "telegram"}
  \/ type \in {"weekly", "monthly", "annual"}

\* What the handler does once the handler it delegated to has returned.
AfterExecution_continue(h) ==
  IF h.platform = "nostr" THEN [h EXCEPT !.pc = "telegram"]
  ELSE [h EXCEPT !.pc = "matchesSchedule", !.i = @ + 1]
AfterExecution(h) == [h EXCEPT !.pc = "done"]

\* the configurations the scheduler finds stored
UnifiedConfigInputs ==
  LET at16 == <<"1", "6", ":", "0", "0">>
      at09 == <<"0", "9", ":", "0", "0">>
      none == [c \in {} |-> NullRet]
      both == [nostr |-> [enabled |-> TRUE], telegram |-> [enabled |-> TRUE]]
      nostrOnly == [nostr |-> [enabled |-> TRUE], telegram |-> [enabled |-> FALSE]]
      telegramOnly == [telegram |-> [enabled |-> TRUE]]
      neither == [nostr |-> [enabled |-> FALSE], telegram |-> [enabled |-> FALSE]]
      daily == {none} \cup
               {[daily |-> [enabled |-> TRUE, time |-> at16, platforms |-> p]] :
                  p \in {both, nostrOnly, telegramOnly, neither}}
               \cup {[daily |-> [enabled |-> FALSE, time |-> at16, platforms |-> both]],
                     [daily |-> [enabled |-> TRUE, time |-> at09, platforms |-> both]]}
      weekly == {none} \cup
                {[weekly |-> [enabled |-> TRUE, time |-> at16, dayOfWeek |-> "monday",
                              platforms |-> p]] : p \in {both, telegramOnly}}
      hourly == {none, [hourly |-> [enabled |-> TRUE, time |-> at16, platforms |-> both]]}
  IN {defaultConfig} \cup
     {[schedules |-> d @@ w @@ h] : d \in daily, w \in weekly, h \in hourly}

\* new Date(): Monday 2 June 2025 at 16:00 and at 09:05 UTC
UnifiedClockInputs ==
  {[year |-> 2025, month |-> 6, date |-> 2, day |-> 1, hours |-> h, minutes |-> m] :
     <<h, m>> \in {<<16, 0>>, <<9, 5>>}}

\* ------------------------------------------------------------------ state
\* last is the latest call: its name, argument and the value each store
\* returned, and for a loadStats the storeStats call right before it, if any.
NoCall ==
  [name |-> "init", arg |-> Null, fileRet |-> NullRet, relRet |-> NullRet,
   prev |-> NullRet]

StoreEmpty ==
  /\ files = <<>>
  /\ rows = {}
  /\ putF = {}
  /\ putR = {}

ExpiryIdle ==
  /\ check = NullRet
  /\ resp = NullRet
  /\ sent = [d \in {} |-> 0]

Idle == [name |-> "idle", fn |-> ""]
PureIdle ==
  /\ sched = Idle
  /\ trend = Idle

SvcIdle ==
  /\ fault = Idle
  /\ limiter = Idle
  /\ handler = Idle

\* The store under every time zone; the monitor is configured with no expiry.
Init ==
  /\ now = StartNow
  /\ last = NoCall
  /\ tz \in TZOffsets
  /\ StoreEmpty
  /\ expiryDate = ExpiryAbsent
  /\ warningDaysStr = <<7, 3, 1>>
  /\ ExpiryIdle
  /\ PureIdle
  /\ SvcIdle

Tick ==
  /\ now < MaxNow
  /\ now' = now + 1
  /\ last' = [NoCall EXCEPT !.name = "tick"]
  /\ UNCHANGED <<tz, files, rows, putF, putR, expiryVars, pureVars, svcVars>>

\* storeStats(stats, date = new Date())
StoreStats ==
  \E stats \in StatsInputs, date \in DateInputs \cup {now} :
    /\ stats = StatsRaw => date = now
    /\ \/ getFilename(date, tz) \in DOMAIN files
       \/ Cardinality(DOMAIN files) < MaxRecords
    /\ \/ \E r \in rows : r.date = formatDate(date, tz)
       \/ Cardinality(rows) < MaxRecords
    /\ files' = FileStoreStats(files, stats, date, now, tz)
    /\ rows' = RelStoreStats(rows, stats, date, now, tz)
    /\ last' = [name |-> "storeStats",
                arg |-> [stats |-> stats, date |-> date,
                         replaced |-> /\ getFilename(date, tz) \in DOMAIN files
                                      /\ \E r \in rows : r.date = formatDate(date, tz)],
                fileRet |-> getFilename(date, tz), relRet |-> formatDate(date, tz),
                prev |-> NullRet]
    /\ putF' = putF \cup {LocalDay(date, tz)}
    /\ putR' = putR \cup {LocalDay(date, tz)}
    /\ UNCHANGED <<now, tz, expiryVars, pureVars, svcVars>>

LoadStats ==
  \E date \in DateInputs \cup {now} :
    /\ last' = [name |-> "loadStats", arg |-> date,
                fileRet |-> FileLoadStats(files, date, tz),
                relRet |-> RelLoadStats(rows, date, tz),
                prev |-> IF last.name = "storeStats" THEN last.arg ELSE NullRet]
    /\ UNCHANGED <<now, tz, files, rows, putF, putR, expiryVars, pureVars, svcVars>>

LoadStatsRange ==
  \E startDate \in RangeInputs, endDate \in RangeInputs :
    /\ startDate <= endDate
    /\ last' = [name |-> "loadStatsRange", arg |-> <<startDate, endDate>>,
                fileRet |-> FileLoadStatsRange(files, startDate, endDate, tz),
                relRet |-> RelLoadStatsRange(rows, startDate, endDate, tz),
                prev |-> NullRet]
    /\ UNCHANGED <<now, tz, files, rows, putF, putR, expiryVars, pureVars, svcVars>>

CleanupOldData ==
  LET delF == FileCleanupDeleted(files, now)
      delR == RelCleanupDeleted(rows, now, tz)
  IN /\ files' = [f \in DOMAIN files \ delF |-> files[f]]
     /\ rows' = rows \ delR
     /\ last' = [name |-> "cleanupOldData", arg |-> Null,
                 fileRet |-> Cardinality(delF), relRet |-> Cardinality(delR),
                 prev |-> NullRet]
        /\ putF' = putF \ {f.day : f \in delF}
     /\ putR' = putR \ {r.date.day : r \in delR}
     /\ UNCHANGED <<now, tz, expiryVars, pureVars, svcVars>>

GetLatestStats ==
  /\ last' = [name |-> "getLatestStats", arg |-> Null,
              fileRet |-> FileGetLatestStats(files, tz),
              relRet |-> RelGetLatestStats(rows),
              prev |-> NullRet]
  /\ UNCHANGED <<now, tz, files, rows, putF, putR, expiryVars, pureVars, svcVars>>

GetStatsFromDaysAgo ==
  \E daysAgo \in DaysAgoInputs :
    /\ last' = [name |-> "getStatsFromDaysAgo", arg |-> daysAgo,
                fileRet |-> FileGetStatsFromDaysAgo(files, daysAgo, now, tz),
                relRet |-> RelGetStatsFromDaysAgo(rows, daysAgo, now, tz),
                prev |-> NullRet]
    /\ UNCHANGED <<now, tz, files, rows, putF, putR, expiryVars, pureVars, svcVars>>

\* generateWeeklyReport() / generateMonthlyReport() / generateAnnualReport()
GenerateReport ==
  \E kind \in ReportKinds :
    /\ last' = [name |-> "generateReport", arg |-> kind.daysAgo,
                fileRet |-> TrendReport(kind, FileGetLatestStats(files, tz),
                              FileGetStatsFromDaysAgo(files, kind.daysAgo, now, tz)),
                relRet |-> TrendReport(kind, RelGetLatestStats(rows),
                             RelGetStatsFromDaysAgo(rows, kind.daysAgo, now, tz)),
                prev |-> NullRet]
    /\ UNCHANGED <<now, tz, files, rows, putF, putR, expiryVars, pureVars, svcVars>>

\* api/check-api-key.js handler: one invocation of the daily expiry check.
\* securityStatus is the outcome of the request checks, telegramValid that of
\* validateTelegramConfig, sendOk whether sendMessage succeeds.
CheckApiKey ==
  \E securityStatus \in SecurityOutcomes, telegramValid \in BOOLEAN, sendOk \in BOOLEAN :
    LET warningDays == ParseWarningDays(warningDaysStr)
        checkResult == checkKeyExpiration(expiryDate, warningDays, now)
        notificationState == loadNotificationState(now)
        today == UtcDay(now)
    IN /\ SentOn(sent, today) < MaxSent
       /\ last' = [NoCall EXCEPT !.name = "checkApiKey"]
       /\ IF securityStatus # 200
          THEN /\ resp' = [status |-> securityStatus, sent |-> FALSE]
               /\ UNCHANGED <<check, sent>>
          ELSE IF ~telegramValid
          THEN /\ resp' = [status |-> 400, sent |-> FALSE]
               /\ UNCHANGED <<check, sent>>
          ELSE IF expiryDate.kind = "absent"
          THEN /\ resp' = [status |-> 200, sent |-> FALSE]
               /\ UNCHANGED <<check, sent>>
          ELSE /\ check' = [result |-> checkResult, at |-> now]
               /\ IF checkResult.error # ""
                  THEN /\ resp' = [status |-> 400, sent |-> FALSE]
                       /\ UNCHANGED sent
                  ELSE IF checkResult.shouldWarn
                          /\ shouldSendNotification(checkResult, notificationState)
                  THEN IF sendOk
                       THEN /\ resp' = [status |-> 200, sent |-> TRUE]
                            /\ sent' = [d \in DOMAIN sent \cup {today} |->
                                          IF d = today THEN SentOn(sent, today) + 1 ELSE sent[d]]
                       ELSE /\ resp' = [status |-> 500, sent |-> FALSE]
                            /\ UNCHANGED sent
                  ELSE /\ resp' = [status |-> 200, sent |-> FALSE]
                       /\ UNCHANGED sent
       /\ UNCHANGED <<now, storeVars, expiryDate, warningDaysStr, pureVars, svcVars>>

\* checkKeyExpiration called directly with the configured settings, as the
\* test scripts do.
CheckKeyExpiration ==
  /\ check' = [result |-> checkKeyExpiration(expiryDate, ParseWarningDays(warningDaysStr), now),
               at |-> now]
  /\ last' = [NoCall EXCEPT !.name = "checkKeyExpiration"]
  /\ UNCHANGED <<now, storeVars, expiryDate, warningDaysStr, resp, sent, pureVars, svcVars>>

Next ==
  \/ Tick
  \/ StoreStats
  \/ LoadStats
  \/ LoadStatsRange
  \/ CleanupOldData
  \/ GetLatestStats
  \/ GetStatsFromDaysAgo
  \/ GenerateReport

Spec == Init /\ [][Next]_vars

\* The expiry monitor under every expiry and warning-day setting; the store
\* stays empty.
InitExpiry ==
  /\ now = StartNow
  /\ last = NoCall
  /\ tz = 0
  /\ StoreEmpty
  /\ expiryDate \in ExpiryInputs
  /\ warningDaysStr \in WarningDaysInputs
  /\ ExpiryIdle
  /\ PureIdle
  /\ SvcIdle

NextExpiry ==
  \/ Tick
  \/ CheckKeyExpiration
  \/ CheckApiKey

SpecExpiry == InitExpiry /\ [][NextExpiry]_vars

\* The calls of the schedule engine: each behaviour starts with one call
\* and its arguments drawn, under every time zone of the process; the store
\* and the monitor stay idle.
SchedCalls ==
       {[name |-> "idle", fn |-> "parseTime", time |-> t] : t \in TimeInputs}
  \cup {[name |-> "idle", fn |-> "generateCron", category |-> cs.category,
         schedule |-> cs.schedule] : cs \in ScheduleInputs}
  \cup {[name |-> "idle", fn |-> "matchesSchedule", category |-> cs.category,
         schedule |-> cs.schedule, now |-> clock] :
          cs \in ScheduleInputs, clock \in ClockInputs}
  \cup {[name |-> "idle", fn |-> "checkScheduleConflicts", schedules |-> ss] :
          ss \in ConflictInputs}
  \cup {[name |-> "idle", fn |-> "validateCronExpression", cron |-> c] :
          c \in CronExprInputs}
  \cup {[name |-> "idle", fn |-> "generateCronSchedules", config |-> c] :
          c \in ConfigInputs}
  \cup {[name |-> "idle", fn |-> "dayToCronNumber", day |-> d] :
          d \in DayNameInputs}

InitSched ==
  /\ now = StartNow
  /\ last = NoCall
  /\ tz \in TZOffsets
  /\ StoreEmpty
  /\ expiryDate = ExpiryAbsent
  /\ warningDaysStr = <<7, 3, 1>>
  /\ ExpiryIdle
  /\ sched \in SchedCalls
  /\ trend = Idle
  /\ SvcIdle

Pending(call, fn) == call.name = "idle" /\ call.fn = fn
Returned(call, ret) == [call EXCEPT !.name = call.fn] @@ [ret |-> ret]

\* parseTime(schedule.time), as every generator calls it
ParseTime ==
  /\ Pending(sched, "parseTime")
  /\ sched' = Returned(sched, parseTime(sched.time))
  /\ UNCHANGED <<now, last, storeVars, expiryVars, trend, svcVars>>

\* generate<Category>Cron(schedule)
GenerateCron ==
  /\ Pending(sched, "generateCron")
  /\ sched' = Returned(sched, generateCron(sched.category, sched.schedule))
  /\ UNCHANGED <<now, last, storeVars, expiryVars, trend, svcVars>>

\* matchesSchedule(schedule, now) with now = new Date()
MatchesSchedule ==
  /\ Pending(sched, "matchesSchedule")
  /\ sched' = Returned(sched, matchesSchedule(sched.schedule, sched.now, tz))
  /\ UNCHANGED <<now, last, storeVars, expiryVars, trend, svcVars>>

CheckScheduleConflicts ==
  /\ Pending(sched, "checkScheduleConflicts")
  /\ sched' = Returned(sched, checkScheduleConflicts(sched.schedules))
  /\ UNCHANGED <<now, last, storeVars, expiryVars, trend, svcVars>>

ValidateCronExpression ==
  /\ Pending(sched, "validateCronExpression")
  /\ sched' = Returned(sched, validateCronExpression(sched.cron))
  /\ UNCHANGED <<now, last, storeVars, expiryVars, trend, svcVars>>

GenerateCronSchedules ==
  /\ Pending(sched, "generateCronSchedules")
  /\ sched' = Returned(sched, generateCronSchedules(sched.config))
  /\ UNCHANGED <<now, last, storeVars, expiryVars, trend, svcVars>>

DayToCronNumber ==
  /\ Pending(sched, "dayToCronNumber")
  /\ sched' = Returned(sched, dayToCronNumber(sched.day))
  /\ UNCHANGED <<now, last, storeVars, expiryVars, trend, svcVars>>

NextSched ==
  \/ ParseTime
  \/ GenerateCron
  \/ MatchesSchedule
  \/ CheckScheduleConflicts
  \/ ValidateCronExpression
  \/ GenerateCronSchedules
  \/ DayToCronNumber

SpecSched == InitSched /\ [][NextSched]_vars


\* The calls of the trend analysis: each behaviour starts with one call and
\* its arguments drawn; the store and the monitor stay idle.
TrendCalls ==
       {[name |-> "idle", fn |-> "calculateChange", current |-> c, previous |-> p] :
          c \in CountInputs, p \in CountInputs}
  \cup {[name |-> "idle", fn |-> "getTrendIndicator", percentageChange |-> pc] :
          pc \in PercentInputs}
  \cup {[name |-> "idle", fn |-> "analyzeTrends", current |-> c, previous |-> p] :
          c \in SnapshotInputs, p \in SnapshotInputs}

InitTrend ==
  /\ now = StartNow
  /\ last = NoCall
  /\ tz = 0
  /\ StoreEmpty
  /\ expiryDate = ExpiryAbsent
  /\ warningDaysStr = <<7, 3, 1>>
  /\ ExpiryIdle
  /\ sched = Idle
  /\ trend \in TrendCalls
  /\ SvcIdle

\* calculateAbsoluteChange and calculatePercentageChange of one metric
CalculateChange ==
  /\ Pending(trend, "calculateChange")
  /\ trend' = Returned(trend,
                [absolute |-> calculateAbsoluteChange(trend.current, trend.previous),
                 percentage |-> calculatePercentageChange(trend.current, trend.previous)])
  /\ UNCHANGED <<now, last, storeVars, expiryVars, sched, svcVars>>

GetTrendIndicator ==
  /\ Pending(trend, "getTrendIndicator")
  /\ trend' = Returned(trend, getTrendIndicator(trend.percentageChange))
  /\ UNCHANGED <<now, last, storeVars, expiryVars, sched, svcVars>>

AnalyzeTrends ==
  /\ Pending(trend, "analyzeTrends")
  /\ trend' = Returned(trend, analyzeTrends(trend.current, trend.previous))
  /\ UNCHANGED <<now, last, storeVars, expiryVars, sched, svcVars>>

NextTrend ==
  \/ CalculateChange
  \/ GetTrendIndicator
  \/ AnalyzeTrends

SpecTrend == InitTrend /\ [][NextTrend]_vars

\* Store calls under a failing or working file system and database, on an
\* empty store and on one that holds today's snapshot.
FaultCalls ==
  LET call(fn) == {[name |-> "idle", fn |-> fn, io |-> io] : io \in IoOutcomes}
  IN    {c @@ [stats |-> StatsA, date |-> d] :
            c \in call("storeStats"), d \in DateInputs \cup {StartNow}}
   \cup {c @@ [date |-> d] : c \in call("loadStats"), d \in DateInputs \cup {StartNow}}
   \cup {c @@ [startDate |-> r[1], endDate |-> r[2]] :
            c \in call("loadStatsRange"),
            r \in {q \in RangeInputs \X RangeInputs : q[1] <= q[2]}}
   \cup call("cleanupOldData")
   \cup call("getLatestStats")
   \cup {c @@ [daysAgo |-> n] : c \in call("getStatsFromDaysAgo"), n \in DaysAgoInputs \cup {0}}
   \cup {c @@ [kind |-> k] : c \in call("generateReport"), k \in ReportKinds}

InitFault ==
  /\ now = StartNow
  /\ last = NoCall
  /\ tz \in TZOffsets
  /\ \E filled \in BOOLEAN :
       /\ files = IF filled THEN FileStoreStats(<<>>, StatsA, now, now, tz) ELSE <<>>
       /\ rows = IF filled THEN RelStoreStats({}, StatsA, now, now, tz) ELSE {}
       /\ putF = IF filled THEN {LocalDay(now, tz)} ELSE {}
       /\ putR = IF filled THEN {LocalDay(now, tz)} ELSE {}
  /\ expiryDate = ExpiryAbsent
  /\ warningDaysStr = <<7, 3, 1>>
  /\ ExpiryIdle
  /\ PureIdle
  /\ fault \in FaultCalls
  /\ limiter = Idle
  /\ handler = Idle

FaultFrame == UNCHANGED <<now, last, tz, putF, putR, expiryVars, pureVars, limiter, handler>>

TryStoreStats ==
  /\ Pending(fault, "storeStats")
  /\ fault' = Returned(fault,
       [file |-> FileStoreStatsOutcome(fault.io, files, fault.stats, fault.date, tz),
        rel |-> RelStoreStatsOutcome(fault.io, rows, fault.stats, fault.date, tz)])
  /\ files' = IF fault.io = "ok"
              THEN FileStoreStats(files, fault.stats, fault.date, now, tz) ELSE files
  /\ rows' = IF fault.io = "ok"
             THEN RelStoreStats(rows, fault.stats, fault.date, now, tz) ELSE rows
  /\ FaultFrame

TryLoadStats ==
  /\ Pending(fault, "loadStats")
  /\ fault' = Returned(fault,
       [file |-> FileLoadStatsOutcome(fault.io, files, fault.date, tz),
        rel |-> RelLoadStatsOutcome(fault.io, rows, fault.date, tz)])
  /\ UNCHANGED <<files, rows>>
  /\ FaultFrame

TryLoadStatsRange ==
  /\ Pending(fault, "loadStatsRange")
  /\ fault' = Returned(fault,
       [file |-> FileLoadStatsRangeOutcome(fault.io, files, fault.startDate, fault.endDate, tz),
        rel |-> RelLoadStatsRangeOutcome(fault.io, rows, fault.startDate, fault.endDate, tz)])
  /\ UNCHANGED <<files, rows>>
  /\ FaultFrame

TryCleanupOldData ==
  /\ Pending(fault, "cleanupOldData")
  /\ fault' = Returned(fault,
       [file |-> FileCleanupOutcome(fault.io, files, now),
        rel |-> RelCleanupOutcome(fault.io, rows, now, tz)])
  /\ files' = IF fault.io = "ok"
              THEN [f \in DOMAIN files \ FileCleanupDeleted(files, now) |-> files[f]]
              ELSE files
  /\ rows' = IF fault.io = "ok" THEN rows \ RelCleanupDeleted(rows, now, tz) ELSE rows
  /\ FaultFrame

TryGetLatestStats ==
  /\ Pending(fault, "getLatestStats")
  /\ fault' = Returned(fault,
       [file |-> FileGetLatestStatsOutcome(fault.io, files, tz),
        rel |-> RelGetLatestStatsOutcome(fault.io, rows)])
  /\ UNCHANGED <<files, rows>>
  /\ FaultFrame

TryGetStatsFromDaysAgo ==
  /\ Pending(fault, "getStatsFromDaysAgo")
  /\ fault' = Returned(fault,
       [file |-> FileGetStatsFromDaysAgoOutcome(fault.io, files, fault.daysAgo, now, tz),
        rel |-> RelGetStatsFromDaysAgoOutcome(fault.io, rows, fault.daysAgo, now, tz)])
  /\ UNCHANGED <<files, rows>>
  /\ FaultFrame

\* generateWeeklyReport() and its siblings: their own catch is reached only
\* by a read that throws
TryGenerateReport ==
  /\ Pending(fault, "generateReport")
  /\ fault' = Returned(fault,
       [file |-> TrendReport(fault.kind,
                   FileGetLatestStatsOutcome(fault.io, files, tz),
                   FileGetStatsFromDaysAgoOutcome(fault.io, files, fault.kind.daysAgo, now, tz)),
        rel |-> TrendReport(fault.kind,
                  RelGetLatestStatsOutcome(fault.io, rows),
                  RelGetStatsFromDaysAgoOutcome(fault.io, rows, fault.kind.daysAgo, now, tz))])
  /\ UNCHANGED <<files, rows>>
  /\ FaultFrame

NextFault ==
  \/ TryStoreStats
  \/ TryLoadStats
  \/ TryLoadStatsRange
  \/ TryCleanupOldData
  \/ TryGetLatestStats
  \/ TryGetStatsFromDaysAgo
  \/ TryGenerateReport

SpecFault == InitFault /\ [][NextFault]_vars

\* ------------------------------------------------------------------ rate limiter
\* One process serving a posting endpoint: the environment is fixed at start,
\* the map starts empty, requests arrive and the clock advances. passed keeps,
\* for each client, the arrival times of the requests that were let through.
InitLimit ==
  /\ now = StartNow
  /\ last = NoCall
  /\ tz = 0
  /\ StoreEmpty
  /\ expiryDate = ExpiryAbsent
  /\ warningDaysStr = <<7, 3, 1>>
  /\ ExpiryIdle
  /\ PureIdle
  /\ fault = Idle
  /\ handler = Idle
  /\ \E cronSecret \in BOOLEAN, apiKey \in BOOLEAN :
       limiter = [name |-> "idle", fn |-> "securityMiddleware",
                  env |-> [cronSecret |-> cronSecret, apiKey |-> apiKey],
                  clock |-> 0, seen |-> 0,
                  rateLimitStore |-> rateLimitStoreEmpty,
                  passed |-> [ip \in ClientIps |-> << >>]]

LimitFrame == UNCHANGED <<now, last, storeVars, expiryVars, pureVars, fault, handler>>

ClockAdvance ==
  /\ limiter.fn = "securityMiddleware"
  /\ limiter.clock < MaxClockSteps * ClockStepMs
  /\ limiter' = [limiter EXCEPT !.clock = @ + ClockStepMs]
  /\ LimitFrame

Request ==
  /\ limiter.fn = "securityMiddleware"
  /\ limiter.seen < MaxRequestsSeen
  /\ \E req \in RequestInputs :
       LET out == securityMiddleware(limiter.env, limiter.rateLimitStore, req, limiter.clock)
           credentials == (limiter.env.cronSecret /\ req.cronSecret = "right")
                          \/ (limiter.env.apiKey /\ req.apiKey = "right")
       IN limiter' =
            [name |-> "securityMiddleware", fn |-> "securityMiddleware",
             env |-> limiter.env, clock |-> limiter.clock, seen |-> limiter.seen + 1,
             rateLimitStore |-> out.store,
             passed |-> IF out.check.allowed /\ ~credentials
                        THEN [limiter.passed EXCEPT ![req.ip] = Append(@, limiter.clock)]
                        ELSE limiter.passed,
             req |-> req, credentials |-> credentials, check |-> out.check]
  /\ LimitFrame

NextLimit == ClockAdvance \/ Request

SpecLimit == InitLimit /\ [][NextLimit]_vars

\* ------------------------------------------------------------------ admin schedule endpoint
\* One request to the admin schedule endpoint: the environment, the
\* schedule_config row, the database's behaviour and the request are fixed at
\* start and the handler runs once.
AdminCalls ==
  {[name |-> "idle", fn |-> "adminSchedule", env |-> [adminToken |-> t],
    row |-> r, db |-> d, req |-> q] :
     t \in BOOLEAN, r \in {NoRow, Row(defaultConfig)}, d \in IoOutcomes,
     q \in AdminRequestInputs}

InitAdmin ==
  /\ now = StartNow
  /\ last = NoCall
  /\ tz = 0
  /\ StoreEmpty
  /\ expiryDate = ExpiryAbsent
  /\ warningDaysStr = <<7, 3, 1>>
  /\ ExpiryIdle
  /\ PureIdle
  /\ fault = Idle
  /\ limiter = Idle
  /\ handler \in AdminCalls

AdminSchedule ==
  /\ Pending(handler, "adminSchedule")
  /\ handler' = Returned(handler,
       adminScheduleHandler(handler.env, handler.row, handler.db, handler.req))
  /\ UNCHANGED <<now, last, storeVars, expiryVars, pureVars, fault, limiter>>

NextAdmin == AdminSchedule

SpecAdmin == InitAdmin /\ [][NextAdmin]_vars

\* ------------------------------------------------------------------ daily Telegram post
\* One run of the daily Telegram handler over a store that is empty or holds
\* a snapshot old enough for the cleanup to delete.
PostCalls == {[name |-> "idle", fn |-> "telegramPost", in |-> in] : in \in PostInputs}

InitPost ==
  /\ now = StartNow
  /\ last = NoCall
  /\ tz = 0
  /\ \E filled \in BOOLEAN :
       /\ files = IF filled THEN FileStoreStats(<<>>, StatsB, 0, 0, tz) ELSE <<>>
       /\ rows = IF filled THEN RelStoreStats({}, StatsB, 0, 0, tz) ELSE {}
       /\ putF = IF filled THEN {0} ELSE {}
       /\ putR = IF filled THEN {0} ELSE {}
  /\ expiryDate = ExpiryAbsent
  /\ warningDaysStr = <<7, 3, 1>>
  /\ ExpiryIdle
  /\ PureIdle
  /\ fault = Idle
  /\ limiter = Idle
  /\ handler \in PostCalls

TelegramPost ==
  /\ Pending(handler, "telegramPost")
  /\ LET out == telegramPostHandler(handler.in, files, rows, now, tz)
     IN /\ handler' = Returned(handler, [steps |-> out.steps, res |-> out.res])
        /\ files' = out.files
        /\ rows' = out.rows
  /\ UNCHANGED <<now, last, tz, putF, putR, expiryVars, pureVars, fault, limiter>>

NextPost == TelegramPost

SpecPost == InitPost /\ [][NextPost]_vars

\* ------------------------------------------------------------------ unified scheduler
\* One invocation of the unified scheduler handler, step by step: the request
\* checks, the load of the configuration, the loop over its categories, and
\* the post handler it delegates to. responses lists the HTTP responses
\* written, executions the post handlers run, evaluated the categories given
\* to matchesSchedule.
UnifiedCalls ==
  {[name |-> "idle", fn |-> "unifiedScheduler", pc |-> "start",
    method |-> m, securityStatus |-> sec, db |-> d, row |-> r, clock |-> c,
    importOk |-> imp, postStatus |-> ps,
    config |-> defaultConfig, i |-> 1, platform |-> "nostr",
    responses |-> <<>>, executions |-> <<>>, evaluated |-> <<>>] :
     m \in {"OPTIONS", "GET"}, sec \in {200, 429}, d \in IoOutcomes,
     r \in {NoRow} \cup {Row(c) : c \in UnifiedConfigInputs},
     c \in UnifiedClockInputs, imp \in BOOLEAN, ps \in {200, 500}}

InitUnified ==
  /\ now = StartNow
  /\ last = NoCall
  /\ tz = 0
  /\ StoreEmpty
  /\ expiryDate = ExpiryAbsent
  /\ warningDaysStr = <<7, 3, 1>>
  /\ ExpiryIdle
  /\ PureIdle
  /\ fault = Idle
  /\ limiter = Idle
  /\ handler \in UnifiedCalls

UnifiedFrame == UNCHANGED <<now, last, storeVars, expiryVars, pureVars, fault, limiter>>

At(pc) == handler.fn = "unifiedScheduler" /\ handler.pc = pc

Respond(h, status) ==
  [h EXCEPT !.pc = "done", !.name = "unifiedScheduler",
            !.responses = Append(@, status)]

\* setSecurityHeaders, the OPTIONS answer and securityMiddleware
UnifiedSecurity ==
  /\ At("start")
  /\ handler' = IF handler.method = "OPTIONS" THEN Respond(handler, 200)
                ELSE IF handler.securityStatus # 200
                THEN Respond(handler, handler.securityStatus)
                ELSE [handler EXCEPT !.pc = "loadScheduleConfig",
                                     !.name = "unifiedScheduler"]
  /\ UnifiedFrame

\* await loadScheduleConfig(); a failure reaches the catch block
UnifiedLoad ==
  /\ At("loadScheduleConfig")
  /\ LET load == loadScheduleConfig(handler.row, handler.db)
     IN handler' = IF load.threw THEN Respond(handler, 500)
                   ELSE [handler EXCEPT !.pc = "matchesSchedule", !.row = load.row,
                                        !.config = load.config, !.i = 1]
  /\ UnifiedFrame

\* the head of the loop: the next category, or the answer after the loop
UnifiedMatch ==
  /\ At("matchesSchedule")
  /\ LET entries == ScheduleEntries(handler.config)
     IN handler' =
          IF handler.i > Len(entries) THEN Respond(handler, 200)
          ELSE LET e == entries[handler.i]
                   seen == [handler EXCEPT !.evaluated = Append(@, e.type)]
               IN IF matchesSchedule(e.schedule, handler.clock, tz)
                  THEN [seen EXCEPT !.pc = "nostr"]
                  ELSE [seen EXCEPT !.i = @ + 1]
  /\ UnifiedFrame

\* if (schedule.platforms?.nostr?.enabled) { result = await executePost(...) }
UnifiedNostr ==
  /\ At("nostr")
  /\ LET e == ScheduleEntries(handler.config)[handler.i]
     IN handler' =
          IF ~PlatformEnabled(e.schedule, "nostr")
          THEN [handler EXCEPT !.pc = "telegram"]
          ELSE IF ~HasPostHandler(e.type, "nostr")
          THEN [handler EXCEPT !.pc = "telegram"]
          ELSE IF ~handler.importOk THEN Respond(handler, 500)
          ELSE [handler EXCEPT !.pc = "handler", !.platform = "nostr"]
  /\ UnifiedFrame

\* if (schedule.platforms?.telegram?.enabled) { result = await executePost(...) }
UnifiedTelegram ==
  /\ At("telegram")
  /\ LET e == ScheduleEntries(handler.config)[handler.i]
     IN handler' =
          IF ~PlatformEnabled(e.schedule, "telegram")
          THEN [handler EXCEPT !.pc = "matchesSchedule", !.i = @ + 1]
          ELSE IF ~HasPostHandler(e.type, "telegram")
          THEN [handler EXCEPT !.pc = "matchesSchedule", !.i = @ + 1]
          ELSE IF ~handler.importOk THEN Respond(handler, 500)
          ELSE [handler EXCEPT !.pc = "handler", !.platform = "telegram"]
  /\ UnifiedFrame

\* await result.handler(req, res); executions.push(...); return
\* The post handler writes one response of its own.
UnifiedExecute ==
  /\ At("handler")
  /\ LET e == ScheduleEntries(handler.config)[handler.i]
         ran == [handler EXCEPT
                   !.responses = Append(@, handler.postStatus),
                   !.executions = Append(@, [type |-> e.type,
                                             platform |-> handler.platform])]
     IN handler' = AfterExecution(ran)
  /\ UnifiedFrame

NextUnified ==
  \/ UnifiedSecurity
  \/ UnifiedLoad
  \/ UnifiedMatch
  \/ UnifiedNostr
  \/ UnifiedTelegram
  \/ UnifiedExecute

SpecUnified == InitUnified /\ [][NextUnified]_vars

\* An invocation that has started runs to its end: every await of the
\* handler settles.
SpecUnifiedLive == SpecUnified /\ WF_vars(NextUnified)

\* ------------------------------------------------------------------ claims
SnapshotOf(r) ==
  [timestamp |-> r.timestamp, memberCount |-> r.memberCount,
   totalChannels |-> r.totalChannels, totalCapacity |-> r.totalCapacity,
   blockHeight |-> r.blockHeight, source |-> r.source]

\* A complete snapshot: timestamp and source are present.
IsSnapshot(s) == s.timestamp # Null /\ s.source # ""

Today == LocalDay(now, tz)
FileDays == {f.day : f \in DOMAIN files}
RowDays == {r.date.day : r \in rows}
FileOn(d) == files[[day |-> d, ext |-> ".json"]]
RowOn(d) == CHOOSE r \in rows : r.date.day = d
ReadCalls == {"loadStats", "loadStatsRange", "getLatestStats", "getStatsFromDaysAgo"}

C2_OnePerDate ==
  /\ \A r1 \in rows, r2 \in rows : r1.date.day = r2.date.day => r1 = r2
  /\ \A f1 \in DOMAIN files, f2 \in DOMAIN files : f1.day = f2.day => f1 = f2
  /\ FileDays = putF
  /\ RowDays = putR

C2_ReadsChangeNothing ==
  last'.name \in ReadCalls => files' = files /\ rows' = rows

\* C2: in every reachable state each store holds at most one snapshot per
\* calendar date and the stored dates are exactly the dates put and not since
\* evicted; a read call leaves both stores as they were.
C2_StoredDates == []C2_OnePerDate /\ [][C2_ReadsChangeNothing]_vars

\* A read right after a put that overwrote the snapshot of its date, another
\* date being stored as well.
C2_Witness ==
  /\ last.name = "loadStats"
  /\ last.prev # NullRet
  /\ last.prev.replaced
  /\ Cardinality(rows) = 2
  /\ Cardinality(DOMAIN files) = 2

\* C3: cleanupOldData deletes exactly the records dated strictly before
\* today - RETENTION_DAYS, keeps the others unchanged and returns the number
\* deleted.
C3_EvictBeforeCutoff ==
  [][last'.name = "cleanupOldData" =>
       LET cutoff == Today - RETENTION_DAYS
       IN /\ DOMAIN files' = {f \in DOMAIN files : f.day >= cutoff}
          /\ \A f \in DOMAIN files' : files'[f] = files[f]
          /\ last'.fileRet = Cardinality({f \in DOMAIN files : f.day < cutoff})
          /\ rows' = {r \in rows : r.date.day >= cutoff}
          /\ last'.relRet = Cardinality({r \in rows : r.date.day < cutoff})]_vars

\* C4: getStatsFromDaysAgo(n) returns the snapshot stored for the date
\* today - n and null when that date has no snapshot, whatever other dates
\* are stored.
C4_ExactDate ==
  last.name = "getStatsFromDaysAgo" =>
    LET day == Today - last.arg
    IN /\ IF day \in FileDays
          THEN /\ last.fileRet # NullRet
               /\ SnapshotOf(last.fileRet) = SnapshotOf(FileOn(day))
          ELSE last.fileRet = NullRet
       /\ IF day \in RowDays
          THEN /\ last.relRet # NullRet
               /\ SnapshotOf(last.relRet) = RowStats(RowOn(day))
          ELSE last.relRet = NullRet

\* getStatsFromDaysAgo(7) is null while a snapshot dated 8 days ago is stored.
C4_Witness ==
  /\ last.name = "getStatsFromDaysAgo"
  /\ last.arg = 7
  /\ (Today - 8) \in FileDays
  /\ (Today - 8) \in RowDays
  /\ last.fileRet = NullRet
  /\ last.relRet = NullRet

MaxDay(S) == CHOOSE d \in S : \A e \in S : e <= d

\* C5: getLatestStats returns the stored snapshot of the maximum date,
\* labelled with that date, and null exactly when the store is empty.
C5_Latest ==
  last.name = "getLatestStats" =>
    /\ IF FileDays = {} THEN last.fileRet = NullRet
       ELSE /\ last.fileRet # NullRet
            /\ last.fileRet.date.day = MaxDay(FileDays)
            /\ SnapshotOf(last.fileRet) = SnapshotOf(FileOn(MaxDay(FileDays)))
    /\ IF RowDays = {} THEN last.relRet = NullRet
       ELSE /\ last.relRet # NullRet
            /\ last.relRet.date.day = MaxDay(RowDays)
            /\ SnapshotOf(last.relRet) = RowStats(RowOn(MaxDay(RowDays)))

\* The dates of a range result, in order, and what the claim expects of it.
RangeIsExact(result, days, startDay, endDay) ==
  /\ \A i \in 1..Len(result), j \in 1..Len(result) :
       i < j => result[i].date.day < result[j].date.day
  /\ {result[i].date.day : i \in 1..Len(result)} =
       {d \in days : startDay <= d /\ d <= endDay}

\* C6: loadStatsRange(start, end) returns exactly the stored snapshots dated
\* from the date of start to the date of end, both included, in ascending
\* date order.
C6_RangeInclusive ==
  last.name = "loadStatsRange" =>
    LET startDay == LocalDay(last.arg[1], tz)
        endDay == LocalDay(last.arg[2], tz)
    IN /\ RangeIsExact(last.fileRet, FileDays, startDay, endDay)
       /\ \A i \in 1..Len(last.fileRet) :
            SnapshotOf(last.fileRet[i]) = SnapshotOf(FileOn(last.fileRet[i].date.day))
       /\ RangeIsExact(last.relRet, RowDays, startDay, endDay)
       /\ \A i \in 1..Len(last.relRet) :
            SnapshotOf(last.relRet[i]) = RowStats(RowOn(last.relRet[i].date.day))

\* C7: at most one expiry warning is sent per calendar day.
C7_OneWarningPerDay == \A d \in DOMAIN sent : sent[d] <= 1

Thresholds == {ParseWarningDays(warningDaysStr)[i] : i \in 1..Len(ParseWarningDays(warningDaysStr))}

\* C8: when ceil((expiry - now) / 1 day) equals a configured threshold the
\* check returns shouldWarn with the urgency of that number of days.
C8_ThresholdWarns ==
  (check # NullRet /\ expiryDate.kind = "date") =>
    LET days == CeilDiv(expiryDate.t - check.at, TicksPerDay)
    IN days \in Thresholds =>
         /\ check.result.shouldWarn
         /\ check.result.urgency =
              (IF days <= 1 THEN "critical" ELSE IF days <= 3 THEN "high"
               ELSE IF days <= 7 THEN "medium" ELSE "low")

\* C9: a check made after the expiry instant returns shouldWarn with urgency
\* expired.
C9_ExpiredAfterExpiry ==
  (check # NullRet /\ expiryDate.kind = "date" /\ check.at > expiryDate.t) =>
    /\ check.result.shouldWarn
    /\ check.result.urgency = "expired"

\* C10: with an absent or unparsable expiry date the check returns
\* shouldWarn = false with an error, and no warning is ever sent.
C10_NoDateNoWarning ==
  expiryDate.kind # "date" =>
    /\ check # NullRet => (~check.result.shouldWarn /\ check.result.error # "")
    /\ \A d \in DOMAIN sent : sent[d] = 0
    /\ resp # NullRet => ~resp.sent

\* The handler has run the check on an unparsable expiry date and answered 400.
C10_Witness ==
  /\ expiryDate = ExpiryGarbage
  /\ last.name = "checkApiKey"
  /\ check # NullRet
  /\ check.result.error # ""
  /\ resp # NullRet
  /\ resp.status = 400

\* ------------------------------------------------- schedule engine claims
\* a well-formed "HH:MM" and the hour and minute it configures
ValidTime(time) ==
  /\ Len(time) = 5
  /\ time[3] = ":"
  /\ \A i \in {1, 2, 4, 5} : IsDigit(time[i])
  /\ DigitsValue(SubSeq(time, 1, 2)) <= 23
  /\ DigitsValue(SubSeq(time, 4, 5)) <= 59
ConfiguredHour(time) == DigitsValue(SubSeq(time, 1, 2))
ConfiguredMinute(time) == DigitsValue(SubSeq(time, 4, 5))

\* a weekday by its full or three-letter name, in any case; Sunday is 0
IsWeekday(name) == toLowerCase(name) \in DOMAIN CronDayNumbers
WeekdayIndex(name) == CronDayNumbers[toLowerCase(name)]

HasDayField(category, s) ==
  CASE category = "daily" -> Has(s, "days")
    [] category = "weekly" -> Has(s, "dayOfWeek")
    [] category = "monthly" -> Has(s, "dayOfMonth")
    [] category = "annual" -> Has(s, "date") /\ s.date # <<>>

\* the day predicate of a category; a schedule without the category's day
\* field is not restricted to any day
DayPredicate(category, s, n) ==
  IF ~HasDayField(category, s) THEN TRUE
  ELSE CASE category = "daily" ->
              \E i \in 1..Len(s.days) :
                IsWeekday(s.days[i]) /\ WeekdayIndex(s.days[i]) = n.day
         [] category = "weekly" ->
              IsWeekday(s.dayOfWeek) /\ WeekdayIndex(s.dayOfWeek) = n.day
         [] category = "monthly" ->
              IF s.dayOfMonth = LastStr
              THEN n.date = DaysInMonth(n.year, n.month)
              ELSE n.date = DigitsValue(s.dayOfMonth)
         [] category = "annual" ->
              LET parts == split(s.date, "-")
              IN /\ n.month = DigitsValue(parts[Len(parts) - 1])
                 /\ n.date = DigitsValue(parts[Len(parts)])

\* C11: matchesSchedule returns false when the schedule is disabled or the
\* UTC hour or minute of now differs from the configured HH:MM, and returns
\* true when the schedule is enabled, the UTC hour and minute of now both
\* equal the configured hour and minute, and the day predicate holds.
C11_MatchesConfiguredMinute ==
  (sched.name = "matchesSchedule" /\ ValidTime(sched.schedule.time)) =>
    LET s == sched.schedule
        n == sched.now
        timeMatches == /\ n.hours = ConfiguredHour(s.time)
                       /\ n.minutes = ConfiguredMinute(s.time)
    IN /\ (~s.enabled \/ ~timeMatches) => sched.ret = FALSE
       /\ (s.enabled /\ timeMatches /\ DayPredicate(sched.category, s, n))
            => sched.ret = TRUE

\* C12: when the schedule is enabled and the time matches, matchesSchedule
\* returns true exactly when the category's day predicate holds: the weekday
\* of now is in the configured set (daily) or is the configured weekday
\* (weekly), the day of the month is dayOfMonth or, for "last", the last
\* calendar day of the month (monthly), the month and day are those of the
\* configured date (annual).
C12_DayPredicates ==
  LET onTheHour ==
        /\ sched.schedule.enabled
        /\ ValidTime(sched.schedule.time)
        /\ ConfiguredMinute(sched.schedule.time) = 0
        /\ sched.now.minutes = 0
        /\ sched.now.hours = ConfiguredHour(sched.schedule.time)
  IN (/\ sched.name = "matchesSchedule"
      /\ onTheHour
      /\ HasDayField(sched.category, sched.schedule))
       => (sched.ret <=> DayPredicate(sched.category, sched.schedule, sched.now))

C14_LastIsDay28 ==
  (/\ sched.name = "generateCron"
   /\ sched.category = "monthly"
   /\ sched.schedule.enabled
   /\ sched.schedule.dayOfMonth = LastStr) =>
    /\ ~sched.ret.isNull
    /\ LET fields == split(sched.ret.str, " ")
           time == sched.schedule.time
       IN /\ Len(fields) = 5
          /\ SubSeq(fields, 3, 5) = <<<<"2", "8">>, Star, Star>>
          /\ ValidTime(time) =>
               /\ fields[1] = NumToChars(ConfiguredMinute(time))
               /\ fields[2] = NumToChars(ConfiguredHour(time))
C14_Witness ==
  /\ sched.name = "generateCron"
  /\ sched.category = "monthly"
  /\ sched.schedule.enabled
  /\ sched.schedule.dayOfMonth = LastStr
  /\ sched.schedule.time = <<"1", "6", ":", "3", "0">>
  /\ sched.ret = Cron(<<"3", "0", " ", "1", "6", " ", "2", "8", " ", "*", " ", "*">>)

\* the conflicts of a list of category entries: one for every category whose
\* expression for a channel is that of an earlier category for the same
\* channel, naming the first category with that expression and this one
ExpectedConflicts(ss) ==
  {[time |-> ss[j][p].str, platform |-> p,
    conflicting |-> <<ss[CHOOSE i \in 1..j :
                           /\ ss[i][p] = ss[j][p]
                           /\ \A h \in 1..(i - 1) : ss[h][p] # ss[j][p]].type,
                      ss[j].type>>] :
     <<j, p>> \in {jp \in (1..Len(ss)) \X {"nostr", "telegram"} :
                     /\ ~ss[jp[1]][jp[2]].isNull
                     /\ \E i \in 1..(jp[1] - 1) : ss[i][jp[2]] = ss[jp[1]][jp[2]]}}

\* C15: checkScheduleConflicts returns exactly one conflict entry for two
\* categories that have the identical cron expression for the same channel,
\* naming the first-seen category and the later one, and no entry when the
\* expressions differ in any field or identical expressions belong to
\* different channels.
C15_ConflictPerCollision ==
  sched.name = "checkScheduleConflicts" =>
    /\ {sched.ret[k] : k \in 1..Len(sched.ret)} = ExpectedConflicts(sched.schedules)
    /\ Len(sched.ret) = Cardinality(ExpectedConflicts(sched.schedules))
C15_Witness ==
  /\ sched.name = "checkScheduleConflicts"
  /\ sched.schedules[1].nostr = CronA
  /\ sched.schedules[2].nostr = CronA
  /\ sched.schedules[1].telegram = CronB
  /\ sched.schedules[2].telegram = NullRet
  /\ sched.schedules[3].nostr = CronB
  /\ sched.schedules[3].telegram = CronA
  /\ sched.ret = <<[time |-> CronA.str, platform |-> "nostr",
                    conflicting |-> <<"daily", "weekly">>]>>

\* -------------------------------------------------- trend analysis claims
\* C16: analyzeTrends returns available: false whenever either snapshot is
\* missing, with reason "No current data" when the current one is missing
\* and "No previous data" when only the previous one is; with both present
\* it returns available: true and the results of the three metrics.
C16_UnavailableReason ==
  trend.name = "analyzeTrends" =>
    LET c == trend.current
        p == trend.previous
        r == trend.ret
    IN /\ c = NullRet => (~r.available /\ r.reason = "No current data")
       /\ (c # NullRet /\ p = NullRet) =>
            (~r.available /\ r.reason = "No previous data")
       /\ (c # NullRet /\ p # NullRet) =>
            /\ r.available
            /\ r.members.current = c.memberCount
            /\ r.members.previous = p.memberCount
            /\ r.members.absolute = c.memberCount - p.memberCount
            /\ r.channels.current = c.totalChannels
            /\ r.channels.previous = p.totalChannels
            /\ r.channels.absolute = c.totalChannels - p.totalChannels
            /\ r.capacity.current = c.totalCapacity
            /\ r.capacity.previous = p.totalCapacity
            /\ r.capacity.absolute = c.totalCapacity - p.totalCapacity
C16_Witness ==
  /\ trend.name = "analyzeTrends"
  /\ trend.current = NullRet
  /\ trend.previous = NullRet
  /\ trend.ret = [available |-> FALSE, reason |-> "No current data"]

\* C17: the absolute change is current - previous; the percentage change is
\* (current - previous) / previous * 100 when previous is not 0, and for
\* previous = 0 it is 100 when current > 0 and 0 otherwise; nothing is
\* divided by zero for non-negative inputs.
C17_Delta ==
  trend.name = "calculateChange" =>
    LET c == trend.current
        p == trend.previous
        pc == trend.ret.percentage
    IN /\ trend.ret.absolute = c - p
       /\ pc.den # 0
       /\ p # 0 => pc.num * p = (c - p) * 100 * pc.den
       /\ (p = 0 /\ c > 0) => pc.num = 100 * pc.den
       /\ (p = 0 /\ c <= 0) => pc.num = 0
C17_Witness ==
  /\ trend.name = "calculateChange"
  /\ trend.previous = 0
  /\ trend.current = 20
  /\ trend.ret.percentage.num = 100 * trend.ret.percentage.den

\* the bucket an indicator stands for
BucketOf(indicator) ==
  CASE indicator = "rocket" -> "strong-growth"
    [] indicator = "chart-up" -> "growth"
    [] indicator = "right-arrow" -> "flat"
    [] indicator = "bar-chart" -> "decline"
    [] indicator = "chart-down" -> "strong-decline"

\* C18: getTrendIndicator gives strong-growth iff the percentage is above 5,
\* growth iff it is above 0 and at most 5, flat iff it is 0, decline iff it
\* is at least -5 and below 0, strong-decline iff it is below -5.
C18_Buckets ==
  trend.name = "getTrendIndicator" =>
    LET num == trend.percentageChange.num
        den == trend.percentageChange.den
        bucket == BucketOf(trend.ret)
    IN /\ bucket = "strong-growth" <=> num > 5 * den
       /\ bucket = "growth" <=> (num > 0 /\ num <= 5 * den)
       /\ bucket = "flat" <=> num = 0
       /\ bucket = "decline" <=> (num >= (0 - 5) * den /\ num < 0)
       /\ bucket = "strong-decline" <=> num < (0 - 5) * den
C18_Witness ==
  /\ trend.name = "getTrendIndicator"
  /\ trend.percentageChange = calculatePercentageChange(21, 20)
  /\ trend.ret = "chart-up"

\* what a report must hold when current is the snapshot of the latest stored
\* date and previous that of the date daysAgo days before today (NullRet
\* where there is none)
ReportOf(analysis, current, previous) ==
  IF current = NullRet THEN analysis = [available |-> FALSE, reason |-> "No current data"]
  ELSE IF previous = NullRet
  THEN analysis = [available |-> FALSE, reason |-> "No previous data"]
  ELSE /\ analysis.available
       /\ analysis.members.current = current.memberCount
       /\ analysis.members.previous = previous.memberCount
       /\ analysis.channels.current = current.totalChannels
       /\ analysis.channels.previous = previous.totalChannels
       /\ analysis.capacity.current = current.totalCapacity
       /\ analysis.capacity.previous = previous.totalCapacity

\* members up by 10, by 11.11 percent: strong growth
MembersUpTenOfNinety(analysis) ==
  /\ analysis.available
  /\ analysis.members.absolute = 10
  /\ (analysis.members.percentage.num * 100) \div analysis.members.percentage.den = 1111
  /\ BucketOf(analysis.members.indicator) = "strong-growth"

IsStatsA(s) == s.memberCount = 100 /\ s.totalChannels = 50 /\ s.totalCapacity = 10
IsStatsB(s) == s.memberCount = 90 /\ s.totalChannels = 45 /\ s.totalCapacity = 9

C19_File ==
  last.name = "generateReport" =>
    /\ ReportOf(last.fileRet.analysis,
                IF FileDays = {} THEN NullRet ELSE FileOn(MaxDay(FileDays)),
                IF (Today - last.arg) \in FileDays THEN FileOn(Today - last.arg)
                ELSE NullRet)
    /\ (/\ last.arg = 7
        /\ FileDays = {Today, Today - 7}
        /\ IsStatsA(FileOn(Today))
        /\ IsStatsB(FileOn(Today - 7)))
         => MembersUpTenOfNinety(last.fileRet.analysis)
C19_Rel ==
  last.name = "generateReport" =>
    /\ ReportOf(last.relRet.analysis,
                IF RowDays = {} THEN NullRet ELSE RowStats(RowOn(MaxDay(RowDays))),
                IF (Today - last.arg) \in RowDays THEN RowStats(RowOn(Today - last.arg))
                ELSE NullRet)
    /\ (/\ last.arg = 7
        /\ RowDays = {Today, Today - 7}
        /\ IsStatsA(RowStats(RowOn(Today)))
        /\ IsStatsB(RowStats(RowOn(Today - 7))))
         => MembersUpTenOfNinety(last.relRet.analysis)

\* C19: a trend report takes the snapshot of the latest stored date as
\* current and the snapshot dated daysAgo days before today as previous and
\* returns their analysis; with {100, 50, 10} stored for today and
\* {90, 45, 9} for seven days ago, the weekly report has members up by 10,
\* by 11.11 percent, strong growth.
C19_ReportOfLatest == C19_File /\ C19_Rel

\* a time of day with a segment that is missing, not a number, or out of
\* the range of hours (0..23) or minutes (0..59)
MalformedTime(time) ==
  LET parts == split(time, ":")
  IN \/ Len(parts) # 2
     \/ \E i \in 1..Len(parts) :
          parts[i] = <<>> \/ \E k \in 1..Len(parts[i]) : ~IsDigit(parts[i][k])
     \/ DigitsValue(parts[1]) > 23
     \/ DigitsValue(parts[2]) > 59

\* C20: parseTime fails for a time with a non-numeric or out-of-range
\* segment and never returns an hour and minute pair for it, so that no
\* cron expression is generated from a malformed time.
C20_MalformedTimeRejected ==
  /\ (sched.name = "parseTime" /\ MalformedTime(sched.time)) =>
       ~(Has(sched.ret, "hour") /\ Has(sched.ret, "minute"))
  /\ (sched.name = "generateCron" /\ MalformedTime(sched.schedule.time)) =>
       sched.ret.isNull

\* a field that is one unsigned integer between min and max
SingleInteger(field, min, max) ==
  /\ field # <<>>
  /\ \A k \in 1..Len(field) : IsDigit(field[k])
  /\ DigitsValue(field) >= min
  /\ DigitsValue(field) <= max
CronRanges == <<<<0, 59>>, <<0, 23>>, <<1, 31>>, <<1, 12>>, <<0, 6>>>>

\* C21: validateCronExpression returns true exactly for an expression of
\* five whitespace-separated fields each of which is "*" or a single
\* integer in its range (minute 0..59, hour 0..23, day 1..31, month 1..12,
\* weekday 0..6); comma lists, as generateDailyCron emits them, are
\* rejected.
C21_StrictFields ==
  sched.name = "validateCronExpression" =>
    (sched.ret <=>
      /\ ~sched.cron.isNull
      /\ LET fields == SplitBlanks(sched.cron.str, <<>>, <<>>)
         IN /\ Len(fields) = 5
            /\ \A i \in 1..5 :
                 \/ fields[i] = Star
                 \/ SingleInteger(fields[i], CronRanges[i][1], CronRanges[i][2]))

\* ------------------------------------------------------- failure claims
\* a result that reports absence: null, or a report without analysis
SoftAbsence(ret) ==
  \/ ret = NullRet
  \/ Has(ret, "analysis") /\ ret.success /\ ~ret.analysis.available

\* C22: a failure of the file system or database during storeStats,
\* loadStats, loadStatsRange, getLatestStats, getStatsFromDaysAgo or
\* cleanupOldData reaches the caller as an error; it is never reported as a
\* null or as an analysis that is not available.
C22_FailuresPropagate ==
  (fault.name # "idle" /\ fault.io = "error") =>
    /\ ~SoftAbsence(fault.ret.file)
    /\ ~SoftAbsence(fault.ret.rel)
    /\ fault.name # "generateReport" =>
         (fault.ret.file = Thrown /\ fault.ret.rel = Thrown)

\* The requests of one client that were let through in the window of
\* windowMs ending at t (the start excluded, the end included).
PassedInWindow(ip, t) ==
  {i \in 1..Len(limiter.passed[ip]) :
     limiter.passed[ip][i] > t - windowMs /\ limiter.passed[ip][i] <= t}

ClockValues == {k * ClockStepMs : k \in 0..(MaxClockSteps + 1)}

\* C23: on a posting endpoint, of the requests of one client IP that carry
\* neither the configured cron secret nor the configured API key, at most
\* maxRequests are let through in any window of windowMs; a further one that
\* passes the method and user-agent checks is answered 429 with a positive
\* Retry-After; a request carrying a valid credential is never answered 429.
C23_SlidingWindow ==
  limiter.fn = "securityMiddleware" =>
    /\ \A ip \in ClientIps : \A t \in ClockValues :
         Cardinality(PassedInWindow(ip, t)) <= maxRequests
    /\ limiter.name = "securityMiddleware" =>
         /\ limiter.credentials => limiter.check.status # 429
         /\ limiter.check.status = 429 => limiter.check.retryAfter > 0

FixedCategories == {"daily", "weekly", "monthly", "annual"}

\* C24: generateCronSchedules(config) has an entry for exactly the enabled
\* categories of daily, weekly, monthly and annual that the configuration
\* holds; in each entry an enabled channel maps to generateCron(category,
\* schedule) and a disabled or missing channel maps to null; a category
\* outside the four is left out, and a configuration without schedules
\* yields the empty result.
C24_EveryCategoryCovered ==
  sched.name = "generateCronSchedules" =>
    LET config == sched.config
        enabledCategories ==
          IF Has(config, "schedules")
          THEN {c \in FixedCategories \cap DOMAIN config.schedules :
                  config.schedules[c].enabled}
          ELSE {}
    IN /\ DOMAIN sched.ret = enabledCategories
       /\ \A c \in enabledCategories : \A platform \in {"nostr", "telegram"} :
            sched.ret[c][platform] =
              IF PlatformEnabled(config.schedules[c], platform)
              THEN generateCron(c, config.schedules[c])
              ELSE NullRet

\* A configuration with all four categories enabled, a disabled channel in
\* one of them and an unknown category has been converted.
C24_Witness ==
  /\ sched.name = "generateCronSchedules"
  /\ Has(sched.config, "schedules")
  /\ DOMAIN sched.config.schedules = FixedCategories \cup {"hourly"}
  /\ \A c \in FixedCategories : sched.config.schedules[c].enabled
  /\ PlatformEnabled(sched.config.schedules.weekly, "nostr")
  /\ ~PlatformEnabled(sched.config.schedules.weekly, "telegram")
  /\ ~sched.ret.weekly.nostr.isNull
  /\ sched.ret.weekly.telegram.isNull
  /\ ~sched.ret.monthly.nostr.isNull

\* The handler has run the POST branch on a body with schedules.
UpdateRan ==
  /\ handler.name = "adminSchedule"
  /\ handler.req.method = "POST"
  /\ AdminTokenAccepted(handler.env, handler.req)
  /\ Has(handler.req.body, "schedules")

PostedConflicts ==
  checkScheduleConflicts(ObjectEntries(
    generateCronSchedules([schedules |-> handler.req.body.schedules])))

\* C25: a schedule update whose generated schedules conflict is handed to
\* saveScheduleConfig like any other; when the database accepts the write the
\* row holds the posted configuration and the response is 200 with the number
\* of conflicts and their details; only a failed write yields another answer.
C25_ConflictsAdvisory ==
  UpdateRan =>
    LET config == [schedules |-> handler.req.body.schedules]
    IN /\ handler.ret.saves = <<config>>
       /\ handler.db = "ok" =>
            /\ handler.ret.row = Row(config)
            /\ handler.ret.res.status = 200
            /\ handler.ret.res.saved
            /\ handler.ret.res.conflicts = Len(PostedConflicts)
            /\ handler.ret.res.conflictDetails = PostedConflicts
       /\ handler.db # "ok" => handler.ret.res.status = 500

\* A configuration with a daily Monday schedule and a weekly Monday schedule
\* at the same time has been saved and its conflicts reported.
C25_Witness ==
  /\ UpdateRan
  /\ handler.db = "ok"
  /\ Len(PostedConflicts) > 0
  /\ handler.ret.res.status = 200
  /\ handler.ret.res.conflicts > 0
  /\ handler.ret.row = Row([schedules |-> handler.req.body.schedules])

\* The weekday names in order, Sunday first, with their three-letter forms.
WeekdayNames ==
  << {"sunday", "sun"}, {"monday", "mon"}, {"tuesday", "tue"},
     {"wednesday", "wed"}, {"thursday", "thu"}, {"friday", "fri"},
     {"saturday", "sat"} >>

\* C26: dayToCronNumber(day) is an integer in 0..6: the index (Sunday = 0) of
\* the weekday that day names in full or by three letters, in any letter
\* case, and 0 for every name that is no weekday.
C26_WeekdayIndex ==
  sched.name = "dayToCronNumber" =>
    LET lower == toLowerCase(sched.day)
    IN /\ sched.ret \in 0..6
       /\ \A i \in 1..7 : lower \in WeekdayNames[i] => sched.ret = i - 1
       /\ (\A i \in 1..7 : lower \notin WeekdayNames[i]) => sched.ret = 0

\* A cron field is satisfied by a value when it is * or lists the value.
CronFieldSatisfied(field, value) ==
  \/ field = Star
  \/ \E i \in 1..Len(split(field, ",")) : parseInt(split(field, ",")[i]) = value

\* The UTC reading n satisfies the five fields minute, hour, day of month,
\* month and day of week of the expression.
CronSatisfied(cron, n) ==
  LET fields == split(cron.str, " ")
  IN /\ Len(fields) = 5
     /\ CronFieldSatisfied(fields[1], n.minutes)
     /\ CronFieldSatisfied(fields[2], n.hours)
     /\ CronFieldSatisfied(fields[3], n.date)
     /\ CronFieldSatisfied(fields[4], n.month)
     /\ CronFieldSatisfied(fields[5], n.day)

\* C27: for an enabled schedule with a well-formed time and any UTC instant
\* now, matchesSchedule(schedule, now) is true exactly when now satisfies the
\* five fields of generateCron(category, schedule).
C27_MatchesIffCronFires ==
  (/\ sched.name = "matchesSchedule"
   /\ sched.schedule.enabled
   /\ ValidTime(sched.schedule.time))
    => (sched.ret <=>
          CronSatisfied(generateCron(sched.category, sched.schedule), sched.now))

\* Two results of a read are the same observation: both null, or snapshots
\* with the same content.
SameSnapshot(a, b) ==
  IF a = NullRet \/ b = NullRet THEN a = b
  ELSE SnapshotOf(a) = SnapshotOf(b)

\* C28: started empty and driven by the same calls under the same clock and
\* time zone, the file-based and the relational store return the same
\* observations at every step: the same snapshot or null from loadStats,
\* getLatestStats and getStatsFromDaysAgo, the same list of snapshots from
\* loadStatsRange, the same number of deletions from cleanupOldData.
C28_StoresEquivalent ==
  /\ last.name \in {"loadStats", "getLatestStats", "getStatsFromDaysAgo"} =>
       SameSnapshot(last.fileRet, last.relRet)
  /\ last.name = "loadStatsRange" =>
       /\ Len(last.fileRet) = Len(last.relRet)
       /\ \A i \in 1..Len(last.fileRet) :
            SameSnapshot(last.fileRet[i], last.relRet[i])
  /\ last.name = "cleanupOldData" => last.fileRet = last.relRet

\* The position of a call among the calls the handler made, 0 when absent.
StepIndex(steps, step) ==
  IF \E i \in 1..Len(steps) : steps[i] = step
  THEN CHOOSE i \in 1..Len(steps) : steps[i] = step
  ELSE 0

\* The run passed the request and configuration checks and fetched stats.
StatsFetched ==
  /\ handler.name = "telegramPost"
  /\ handler.in.method # "OPTIONS"
  /\ handler.in.securityStatus = 200
  /\ handler.in.telegramValid /\ handler.in.ambossApiKey /\ handler.in.communityId
  /\ handler.in.stats # NullRet

\* C29: once stats were fetched and the configuration is valid, the handler
\* calls storeStats first and sendMessage afterwards, and sendMessage is
\* called whether storeStats or cleanupOldData succeeded or threw; the answer
\* depends on the send alone. No other run calls sendMessage.
C29_StoreThenSend ==
  handler.name = "telegramPost" =>
    IF StatsFetched
    THEN /\ StepIndex(handler.ret.steps, "storeStats") > 0
         /\ StepIndex(handler.ret.steps, "sendMessage")
              > StepIndex(handler.ret.steps, "storeStats")
         /\ handler.ret.res.sent <=> handler.in.sendIo = "ok"
    ELSE StepIndex(handler.ret.steps, "sendMessage") = 0

\* The store failed and the message was sent all the same.
C29_Witness ==
  /\ StatsFetched
  /\ handler.in.storeIo = "error"
  /\ handler.ret.res.sent
  /\ handler.ret.res.status = 200

\* The category at position j matches now and has an enabled channel for
\* which a post handler exists.
Fires(j) ==
  LET e == ScheduleEntries(handler.config)[j]
  IN /\ matchesSchedule(e.schedule, handler.clock, tz)
     /\ \E platform \in {"nostr", "telegram"} :
          PlatformEnabled(e.schedule, platform) /\ HasPostHandler(e.type, platform)

\* What holds of an invocation at every moment.
UnifiedAtMostOne ==
  handler.fn = "unifiedScheduler" =>
    /\ Len(handler.executions) <= 1
    /\ Len(handler.responses) <= 1
    /\ Len(handler.executions) = 1 =>
         /\ handler.pc = "done"
         /\ Fires(handler.i)
         /\ \A j \in 1..(handler.i - 1) : ~Fires(j)
         /\ Len(handler.evaluated) = handler.i
    /\ handler.pc = "done" =>
         /\ Len(handler.responses) = 1
         /\ (/\ handler.method # "OPTIONS"
             /\ handler.securityStatus = 200
             /\ handler.db = "ok"
             /\ \A j \in 1..Len(ScheduleEntries(handler.config)) : ~Fires(j))
              => handler.responses = <<200>> /\ handler.executions = <<>>

\* C30: every invocation of the unified scheduler handler runs at most one
\* post handler and writes exactly one HTTP response: it ends, it returns
\* right after the first matching category and channel has been handled
\* without evaluating the rest, and it answers 200 with no executions when
\* nothing matches.
C30_OneExecutionOneResponse ==
  /\ []UnifiedAtMostOne
  /\ <>(handler.pc = "done" /\ Len(handler.responses) = 1)

\* A configuration in which the daily and the weekly schedule both match has
\* been handled: the daily handler ran for nostr and nothing else was looked at.
C30_Witness ==
  /\ handler.fn = "unifiedScheduler"
  /\ handler.pc = "done"
  /\ Len(ScheduleEntries(handler.config)) >= 2
  /\ Fires(1) /\ Fires(2)
  /\ handler.executions = <<[type |-> "daily", platform |-> "nostr"]>>
  /\ handler.evaluated = <<"daily">>
  /\ Len(handler.responses) = 1

====
